---- MODULE Spec2Model ----
(***************************************************************************)
(* A model of roogle, a structural search over Rust sources: the query     *)
(* grammar (fnsig.rs, fnarg.rs, structdef.rs, enumdef.rs, item.rs), the    *)
(* per-file lookup structures (fnsig.rs FnSigMap, structmap.rs), the       *)
(* matchers (fnsig.rs eq, structmap.rs, enumdef.rs) and the pipeline of    *)
(* main (main.rs).                                                         *)
(*                                                                         *)
(* Strings are sequences of one-character strings, so that lower-casing,   *)
(* quoting and concatenation are computed and not assumed.  A syn::Type    *)
(* or an Ident of a parsed source file is held by its spelling, the string *)
(* that to_token_stream().to_string() gives for it.                        *)
(***************************************************************************)
EXTENDS Integers, Sequences, FiniteSets, TLC

VARIABLES
    \* ---- main (Spec)
    argv,       \* the query argument: None, or Some(the tokens of the string)
    files,      \* the files of the directory walk, by name
    pc,         \* where main is
    pending,    \* the entries of the walk no worker has taken yet
    contents,   \* the files read, in the order the workers delivered them
    items,      \* the declarations of every file parsed
    query_item, \* the parsed query
    results,    \* the locations found
    printing,   \* the locations print_results has still to print
    out,        \* the lines printed on the standard output
    err,        \* what was written on the standard error
    \* ---- FnSignature equality (SpecFnEq)
    pcE,        \* "idle" | "raw" | "built" | "compared"
    sigA, sigB, \* two syn::Signature values, as the file parser gives them
    fnA, fnB,   \* the FnSignature built from each
    eqAB, eqBA, \* fnA == fnB and fnB == fnA
    hashA, hashB, \* the data each signature feeds its Hasher
    \* ---- one StructDefMap (SpecStructMap)
    sm,         \* the map
    sm_defs,    \* the records inserted so far, each with its location
    sm_lookup,  \* the last lookup: its kind, key, flag and result
    \* ---- one union query over a sequence of unions (SpecEnum)
    pcN,        \* "idle" | "query" | "search" | "done" | "failed"
    n_input,    \* the tokens of the query
    n_enums,    \* the syn::ItemEnum values searched
    n_query,    \* the parsed query
    n_found,    \* the locations search_enum_def returned
    \* ---- one list of the query grammar, parsed twice (SpecQuery)
    pcQ,        \* "idle" | "input"
    q_kind,     \* which list of the grammar the query holds
    q_elems,    \* the elements of the list, each a sequence of tokens
    q_item_plain, \* the parse of the query, the list written as it is
    q_item_comma  \* the parse of the query, a comma after the last element

varsM == <<argv, files, pc, pending, contents, items, query_item, results,
           printing, out, err>>
varsE == <<pcE, sigA, sigB, fnA, fnB, eqAB, eqBA, hashA, hashB>>
varsS == <<sm, sm_defs, sm_lookup>>
varsN == <<pcN, n_input, n_enums, n_query, n_found>>
varsQ == <<pcQ, q_kind, q_elems, q_item_plain, q_item_comma>>
vars == <<varsM, varsE, varsS, varsN, varsQ>>

-----------------------------------------------------------------------------
(* Option<T> *)
None == [some |-> FALSE, v |-> <<>>]
Some(x) == [some |-> TRUE, v |-> x]

(* str::to_lowercase, on the ASCII letters *)
LowerOf ==
    [A |-> "a", B |-> "b", C |-> "c", D |-> "d", E |-> "e", F |-> "f", G |-> "g",
     H |-> "h", I |-> "i", J |-> "j", K |-> "k", L |-> "l", M |-> "m", N |-> "n",
     O |-> "o", P |-> "p", Q |-> "q", R |-> "r", S |-> "s", T |-> "t", U |-> "u",
     V |-> "v", W |-> "w", X |-> "x", Y |-> "y", Z |-> "z"]

LowerChar(c) == IF c \in DOMAIN LowerOf THEN LowerOf[c] ELSE c

ToLowercase(s) == [i \in 1..Len(s) |-> LowerChar(s[i])]

(* to_boxed_string / to_static_str: the token string, lower-cased *)
to_boxed_string(x) == ToLowercase(x)

to_static_str(x) == ToLowercase(x)

(* the spelling of the empty tuple type `()` *)
UnitTy == <<"(", ")">>

RECURSIVE ConcatAll(_)
ConcatAll(ss) == IF ss = <<>> THEN <<>> ELSE Head(ss) \o ConcatAll(Tail(ss))

(* proc_macro2 Literal::string(s).to_string(): s between double quotes,    *)
(* with every double quote and backslash of s escaped.                     *)
EscapeChar(c) ==
    IF c = "\"" THEN <<"\\", "\"">>
    ELSE IF c = "\\" THEN <<"\\", "\\">>
    ELSE <<c>>

LiteralString(s) ==
    <<"\"">> \o ConcatAll([i \in 1..Len(s) |-> EscapeChar(s[i])]) \o <<"\"">>

-----------------------------------------------------------------------------
(* ReturnType and its token stream *)
RetDefault == [tag |-> "Default", ty |-> <<>>]
RetType(ty) == [tag |-> "Type", ty |-> ty]

ReturnType_to_token_stream(r) ==
    IF r.tag = "Default" THEN <<>>
    ELSE IF r.ty = UnitTy THEN <<>>
    ELSE r.ty

(* syn::FnArg of a parsed file: a receiver, or a typed pattern whose        *)
(* pattern is an identifier (pat = Some(ident)) or anything else (None).    *)
SynReceiver == [recv |-> TRUE, pat |-> None, ty |-> <<>>]
SynTyped(pat, ty) == [recv |-> FALSE, pat |-> pat, ty |-> ty]

FnArg(name, ty) == [name |-> name, ty |-> ty]

(* a mutant: the receiver is kept as a parameter *)
signature_get_inputs_keeps_receiver(inputs) ==
    [i \in 1..Len(inputs) |->
        IF inputs[i].recv
        THEN FnArg(None, Some(<<"&", " ", "s", "e", "l", "f">>))
        ELSE FnArg(IF inputs[i].pat.some
                      THEN Some(to_boxed_string(inputs[i].pat.v))
                      ELSE None,
                   Some(to_boxed_string(inputs[i].ty)))]

signature_get_inputs(inputs) ==
    LET typed == SelectSeq(inputs, LAMBDA a : ~a.recv)
    IN  [i \in 1..Len(typed) |->
            FnArg(IF typed[i].pat.some
                     THEN Some(to_boxed_string(typed[i].pat.v))
                     ELSE None,
                  Some(to_boxed_string(typed[i].ty)))]

signature_get_output(output) == output

(* a mutant: the type strings are joined bare, as token streams are *)
inputs_to_string_unquoted(inputs) ==
    ConcatAll([i \in 1..Len(inputs) |->
        IF inputs[i].ty.some THEN inputs[i].ty.v ELSE <<>>])

inputs_to_string(inputs) ==
    ConcatAll([i \in 1..Len(inputs) |->
        IF inputs[i].ty.some THEN LiteralString(inputs[i].ty.v) ELSE <<>>])

SynSignature(ident, inputs, output) ==
    [ident |-> ident, inputs |-> inputs, output |-> output]

(* FnSignature *)
FnSignature(name, inputs, output) ==
    [name |-> name, inputs |-> inputs, output |-> output]

FnSignature_from(syn_sig) ==
    FnSignature(Some(ToLowercase(syn_sig.ident)),
                signature_get_inputs(syn_sig.inputs),
                signature_get_output(syn_sig.output))

(* a mutant: the name of the function is hashed too *)
FnSignature_hash_with_name(self) ==
    << self.name,
       ToLowercase(inputs_to_string(self.inputs)),
       ToLowercase(ReturnType_to_token_stream(self.output)) >>

FnSignature_hash(self) ==
    << ToLowercase(inputs_to_string(self.inputs)),
       ToLowercase(ReturnType_to_token_stream(self.output)) >>

FnSignature_eq(self, other) ==
    IF Len(self.inputs) # Len(other.inputs) THEN FALSE
    ELSE IF ToLowercase(inputs_to_string(self.inputs))
              # ToLowercase(inputs_to_string(other.inputs)) THEN FALSE
    ELSE ToLowercase(ReturnType_to_token_stream(self.output))
            = ToLowercase(ReturnType_to_token_stream(other.output))

-----------------------------------------------------------------------------
(* The query string, as the token trees syn::parse_str gives the parsers:  *)
(* identifiers (keywords among them), punctuation, and delimited groups.   *)
Id(s) == [t |-> "ident", s |-> s, ts |-> <<>>]
Pn(s) == [t |-> "punct", s |-> s, ts |-> <<>>]
Paren(ts) == [t |-> "paren", s |-> <<>>, ts |-> ts]
Brace(ts) == [t |-> "brace", s |-> <<>>, ts |-> ts]

Comma == Pn(<<",">>)
Colon == Pn(<<":">>)
Semi == Pn(<<";">>)
Arrow == Pn(<<"-", ">">>)

KwFn == <<"f", "n">>
KwStruct == <<"s", "t", "r", "u", "c", "t">>
KwEnum == <<"e", "n", "u", "m">>
Keywords == {KwFn, KwStruct, KwEnum}

(* input.peek(Ident): an identifier that is no keyword *)
PeekIdent(input) ==
    input # <<>> /\ Head(input).t = "ident" /\ Head(input).s \notin Keywords

PeekKw(input, kw) ==
    input # <<>> /\ Head(input).t = "ident" /\ Head(input).s = kw

PeekTok(input, tok) == input # <<>> /\ Head(input) = tok

PeekGroup(input, delim) == input # <<>> /\ Head(input).t = delim

(* input.peek2(T), input.peek3(T): the second and the third token tree *)
Peek2Tok(input, tok) == Len(input) >= 2 /\ input[2] = tok
Peek3Tok(input, tok) == Len(input) >= 3 /\ input[3] = tok
Peek2Group(input, delim) == Len(input) >= 2 /\ input[2].t = delim

Drop(input, n) == SubSeq(input, n + 1, Len(input))
Take(input, n) == SubSeq(input, 1, n)

(* skip_tokens!(input, t): parse the token if it is there, ignore a failure *)
skip_tokens(input, tok) == IF PeekTok(input, tok) THEN Tail(input) ELSE input

skip_keyword(input, kw) == IF PeekKw(input, kw) THEN Tail(input) ELSE input

(* TokenStream::to_string: the tokens, one space between two of them *)
RECURSIVE TokenString(_)
TokenString(ts) ==
    IF ts = <<>> THEN <<>>
    ELSE LET tok == Head(ts)
             one == IF tok.t = "paren" THEN <<"(">> \o TokenString(tok.ts) \o <<")">>
                    ELSE IF tok.t = "brace" THEN <<"{">> \o TokenString(tok.ts) \o <<"}">>
                    ELSE tok.s
         IN  IF Len(ts) = 1 THEN one ELSE one \o <<" ">> \o TokenString(Tail(ts))

(* syn's parser of a Type, on the types the queries of this model use: a   *)
(* path of one identifier, with parenthesized arguments and a return type  *)
(* when a parenthesis follows it (`F(a) -> b`), and a tuple or             *)
(* parenthesized type.  TypeLen is the number of tokens the parser takes,  *)
(* 0 when it fails (a failure at the first token takes nothing).           *)
RECURSIVE TypeLen(_), TypeListOk(_)
TypeLen(input) ==
    IF input = <<>> THEN 0
    ELSE IF PeekIdent(input) THEN
        IF Peek2Group(input, "paren") THEN
            IF ~TypeListOk(input[2].ts) THEN 0
            ELSE IF Peek3Tok(input, Arrow) THEN
                IF TypeLen(Drop(input, 3)) = 0 THEN 0
                ELSE 3 + TypeLen(Drop(input, 3))
            ELSE 2
        ELSE 1
    ELSE IF PeekGroup(input, "paren") THEN
        IF TypeListOk(Head(input).ts) THEN 1 ELSE 0
    ELSE 0

(* Punctuated::<Type, Token![,]>::parse_terminated on a group's content *)
TypeListOk(content) ==
    IF content = <<>> THEN TRUE
    ELSE LET n == TypeLen(content)
         IN  IF n = 0 THEN FALSE
             ELSE IF Len(content) = n THEN TRUE
             ELSE IF content[n + 1] = Comma THEN TypeListOk(Drop(content, n + 1))
             ELSE FALSE

(* The result of a parser: st is "ok", "err" (an Err is returned) or       *)
(* "panic" (an unwrap of an Err); rest is what the parser leaves of its    *)
(* input; left tells that a delimited group was left with unparsed tokens, *)
(* which syn reports as an error when parse_str ends.                      *)
POk(v, rest, left) == [st |-> "ok", v |-> v, rest |-> rest, left |-> left]
PErr == [st |-> "err", v |-> <<>>, rest |-> <<>>, left |-> FALSE]
PPanic == [st |-> "panic", v |-> <<>>, rest |-> <<>>, left |-> FALSE]

(* impl Parse for FnArg *)
FnArg_parse(input) ==
    LET second(name, rest, m) ==
            IF m = 0 THEN PErr
            ELSE POk(FnArg(Some(to_boxed_string(name)),
                           Some(to_boxed_string(TokenString(Take(rest, m))))),
                     Drop(rest, m), FALSE)
        first(n, rest) ==
            IF n = 0 THEN PErr
            ELSE IF PeekTok(rest, Colon)
                 THEN second(TokenString(Take(input, n)), Tail(rest), TypeLen(Tail(rest)))
                 ELSE POk(FnArg(None, Some(to_boxed_string(TokenString(Take(input, n))))),
                          rest, FALSE)
    IN  first(TypeLen(input), Drop(input, TypeLen(input)))

(* the loop of FnSignature::parse over the parenthesized content *)
RECURSIVE FnSignature_parse_inputs(_, _)
FnSignature_parse_inputs(content, inputs) ==
    LET pushed(a) ==
            IF a.st # "ok" THEN a
            ELSE IF PeekTok(a.rest, Comma)
                 THEN FnSignature_parse_inputs(Tail(a.rest), Append(inputs, a.v))
                 ELSE POk(Append(inputs, a.v), a.rest, a.rest # <<>>)
    IN  IF content = <<>> THEN POk(inputs, content, FALSE)
        ELSE pushed(FnArg_parse(content))

(* input.parse::<syn::ReturnType>().unwrap() *)
ReturnType_parse_unwrap(input) ==
    LET typed(rest, n) ==
            IF n = 0 THEN PPanic
            ELSE POk(RetType(TokenString(Take(rest, n))), Drop(rest, n), FALSE)
    IN  IF PeekTok(input, Arrow) THEN typed(Tail(input), TypeLen(Tail(input)))
        ELSE POk(RetDefault, input, FALSE)

(* impl Parse for FnSignature *)
FnSignature_parse(input0) ==
    LET returning(name, ins, output) ==
            IF output.st # "ok" THEN output
            ELSE POk(FnSignature(name, ins.v, signature_get_output(output.v)),
                     output.rest, ins.left)
        parenthesized(name, input2, ins) ==
            IF ins.st # "ok" THEN ins
            ELSE returning(name, ins, ReturnType_parse_unwrap(Tail(input2)))
        named(name, input2) ==
            IF ~PeekGroup(input2, "paren") THEN PErr
            ELSE parenthesized(name, input2,
                               FnSignature_parse_inputs(Head(input2).ts, <<>>))
        skipped(input1) ==
            IF PeekIdent(input1) THEN named(Some(Head(input1).s), Tail(input1))
            ELSE named(None, input1)
    IN  skipped(skip_keyword(input0, KwFn))

-----------------------------------------------------------------------------
(* Field, Fields, StructDef (structdef.rs, fields.rs).  Field.ty is held   *)
(* as an Option, the form main.rs and structmap.rs read it in; the         *)
(* StructDef parser and From of structdef.rs always give it a string.      *)
Field(name, ty) == [name |-> name, ty |-> ty]
Fields(kind, fs) == [kind |-> kind, fs |-> fs]
FieldsUnit == Fields("Unit", <<>>)

(* Fields::iter: no field for Unit *)
Fields_iter(fields) == IF fields.kind = "Unit" THEN <<>> ELSE fields.fs

StructDef(name, is_tup, fields) ==
    [name |-> name, is_tup |-> is_tup, fields |-> fields]

(* syn::ItemStruct and syn::ItemEnum of a parsed file: the identifier and  *)
(* the syn::Fields, each field an optional identifier and a type.          *)
SynField(ident, ty) == [ident |-> ident, ty |-> ty]
SynFields(kind, fs) == [kind |-> kind, fs |-> fs]
SynItemStruct(ident, fields) == [ident |-> ident, fields |-> fields]

(* impl From<syn::ItemStruct> for StructDef *)
StructDef_from(structdef) ==
    LET fs == structdef.fields.fs
        fields == [i \in 1..Len(fs) |->
                     Field(IF fs[i].ident.some
                              THEN Some(to_static_str(fs[i].ident.v)) ELSE None,
                           Some(to_static_str(fs[i].ty)))]
    IN  StructDef(Some(to_static_str(structdef.ident)),
                  structdef.fields.kind = "Unnamed",
                  IF structdef.fields.kind = "Unit" THEN FieldsUnit
                  ELSE Fields(structdef.fields.kind, fields))

(* parse_optional_named_field of structdef.rs *)
parse_optional_named_field(input) ==
    LET typed(name, input1, n) ==
            IF input1 = <<>> THEN POk(Field(name, Some(<<>>)), input1, FALSE)
            ELSE IF n = 0 THEN PPanic
            ELSE POk(Field(name, Some(to_static_str(TokenString(Take(input1, n))))),
                     Drop(input1, n), FALSE)
        field(named) ==
            IF named /\ ~PeekIdent(input) THEN PPanic
            ELSE IF named
                 THEN typed(Some(to_static_str(Head(input).s)),
                            skip_tokens(Tail(input), Colon),
                            TypeLen(skip_tokens(Tail(input), Colon)))
                 ELSE typed(None, input, TypeLen(input))
    IN  field(Peek2Tok(input, Colon) /\ ~Peek3Tok(input, Colon))

(* the loop of the Brace branch of StructDef::parse: the comma is skipped  *)
(* on input, the stream after the braces, and not on content               *)
RECURSIVE StructDef_parse_named(_, _, _)
StructDef_parse_named(content, input, fields) ==
    LET pushed(f) ==
            IF f.st # "ok" THEN f
            ELSE IF f.rest = <<>> THEN POk(Append(fields, f.v), input, FALSE)
            ELSE StructDef_parse_named(f.rest, skip_tokens(input, Comma),
                                       Append(fields, f.v))
    IN  IF content = <<>> THEN POk(fields, input, FALSE)
        ELSE pushed(parse_optional_named_field(content))

(* the loop of the Paren branch of StructDef::parse: the type is parsed    *)
(* from input, the stream after the parentheses, and content is never      *)
(* advanced                                                                *)
RECURSIVE StructDef_parse_unnamed(_, _, _)
StructDef_parse_unnamed(content, input, fields) ==
    LET typed(n) ==
            IF n = 0 THEN PErr
            ELSE StructDef_parse_unnamed(
                     content, skip_tokens(Drop(input, n), Comma),
                     Append(fields,
                            Field(None, Some(to_static_str(TokenString(Take(input, n)))))))
    IN  IF content = <<>> THEN POk(fields, input, FALSE)
        ELSE typed(TypeLen(input))

(* impl Parse for StructDef *)
StructDef_parse(input0) ==
    LET built(name, is_tup, kind, r) ==
            IF r.st # "ok" THEN r
            ELSE POk(StructDef(name, is_tup, Fields(kind, r.v)), r.rest, FALSE)
        named(name, input2) ==
            IF PeekGroup(input2, "brace") THEN
                built(name, FALSE, "Named",
                      StructDef_parse_named(Head(input2).ts, Tail(input2), <<>>))
            ELSE IF PeekGroup(input2, "paren") THEN
                built(name, TRUE, "Unnamed",
                      StructDef_parse_unnamed(Head(input2).ts, Tail(input2), <<>>))
            ELSE IF PeekTok(input2, Semi) THEN
                POk(StructDef(name, FALSE, FieldsUnit), Tail(input2), FALSE)
            ELSE PErr
        skipped(input1) ==
            IF PeekIdent(input1)
            THEN named(Some(to_static_str(Head(input1).s)), Tail(input1))
            ELSE named(None, input1)
    IN  skipped(skip_keyword(input0, KwStruct))

-----------------------------------------------------------------------------
(* Variant, EnumDef (enumdef.rs) *)
Variant(name, fields) == [name |-> name, fields |-> fields]
EnumDef(name, variants) == [name |-> name, variants |-> variants]

SynVariant(ident, fields) == [ident |-> ident, fields |-> fields]
SynItemEnum(ident, variants) == [ident |-> ident, variants |-> variants]

(* impl From<syn::Fields> for Fields (fields.rs) *)
Fields_from(fs) ==
    IF fs.kind = "Unit" THEN FieldsUnit
    ELSE Fields(fs.kind,
                [i \in 1..Len(fs.fs) |->
                    Field(IF fs.fs[i].ident.some
                             THEN Some(to_static_str(fs.fs[i].ident.v)) ELSE None,
                          Some(to_static_str(fs.fs[i].ty)))])

(* impl From<syn::ItemEnum> for EnumDef *)
EnumDef_from(e) ==
    EnumDef(Some(to_static_str(e.ident)),
            [i \in 1..Len(e.variants) |->
                Variant(Some(to_static_str(e.variants[i].ident)),
                        Fields_from(e.variants[i].fields))])

(* parse_optionaly_named_field of fields.rs *)
parse_optionaly_named_field(input) ==
    LET typed(name, input1, n) ==
            IF input1 = <<>> THEN POk(Field(name, None), input1, FALSE)
            ELSE IF n = 0 THEN PErr
            ELSE POk(Field(name, Some(to_static_str(TokenString(Take(input1, n))))),
                     Drop(input1, n), FALSE)
        field(named) ==
            IF named /\ ~PeekIdent(input) THEN PPanic
            ELSE IF named
                 THEN typed(Some(to_static_str(Head(input).s)),
                            skip_tokens(Tail(input), Colon),
                            TypeLen(skip_tokens(Tail(input), Colon)))
                 ELSE typed(None, input, TypeLen(input))
    IN  field(Peek2Tok(input, Colon) /\ ~Peek3Tok(input, Colon))

(* the loop over the braced fields of a variant: every failure is unwrapped *)
RECURSIVE EnumDef_parse_named(_, _)
EnumDef_parse_named(inner_content, fields) ==
    LET pushed(f) ==
            IF f.st # "ok" THEN PPanic
            ELSE IF f.rest = <<>> THEN POk(Append(fields, f.v), <<>>, FALSE)
            ELSE IF ~PeekTok(f.rest, Comma) THEN PPanic
            ELSE EnumDef_parse_named(Tail(f.rest), Append(fields, f.v))
    IN  IF inner_content = <<>> THEN POk(fields, <<>>, FALSE)
        ELSE pushed(parse_optionaly_named_field(inner_content))

(* the loop over the parenthesized fields of a variant *)
RECURSIVE EnumDef_parse_unnamed(_, _)
EnumDef_parse_unnamed(inner_content, fields) ==
    LET pushed(n, f, rest) ==
            IF n = 0 THEN PPanic
            ELSE IF rest = <<>> THEN POk(Append(fields, f), <<>>, FALSE)
            ELSE IF ~PeekTok(rest, Comma) THEN PPanic
            ELSE EnumDef_parse_unnamed(Tail(rest), Append(fields, f))
        typed(n) ==
            pushed(n, Field(None, Some(to_static_str(TokenString(Take(inner_content, n))))),
                   Drop(inner_content, n))
    IN  IF inner_content = <<>> THEN POk(fields, <<>>, FALSE)
        ELSE typed(TypeLen(inner_content))

(* the fields of one variant, after its name: braces, parentheses (two     *)
(* groups in a row give Unit, the first one skipped unparsed), or a type   *)
EnumDef_parse_fields(content) ==
    LET built(kind, r) ==
            IF r.st # "ok" THEN r
            ELSE POk(Fields(kind, r.v), Tail(content), FALSE)
        typed(n) ==
            IF n = 0 THEN PPanic
            ELSE POk(Fields("Unnamed",
                            <<Field(None, Some(to_static_str(TokenString(Take(content, n)))))>>),
                     Drop(content, n), FALSE)
    IN  IF PeekGroup(content, "brace") THEN
            built("Named", EnumDef_parse_named(Head(content).ts, <<>>))
        ELSE IF PeekGroup(content, "paren") THEN
            IF Peek2Group(content, "paren")
            THEN POk(FieldsUnit, Tail(content), Head(content).ts # <<>>)
            ELSE built("Unnamed", EnumDef_parse_unnamed(Head(content).ts, <<>>))
        ELSE typed(TypeLen(content))

(* the loop of EnumDef::parse over the braced content: a name, an optional *)
(* comma, and when nothing follows the name is taken for a bare type       *)
RECURSIVE EnumDef_parse_variants(_, _, _)
EnumDef_parse_variants(content, variants, left) ==
    LET pushed(name, f) ==
            IF f.st # "ok" THEN f
            ELSE EnumDef_parse_variants(skip_tokens(f.rest, Comma),
                                        Append(variants, Variant(name, f.v)),
                                        left \/ f.left)
        named(name, content1) ==
            IF content1 = <<>>
            THEN POk(Append(variants,
                            Variant(None, Fields("Unnamed", <<Field(None, name)>>))),
                     <<>>, left)
            ELSE pushed(name, EnumDef_parse_fields(content1))
        typed(n) ==
            named(IF n = 0 THEN None
                  ELSE Some(to_static_str(TokenString(Take(content, n)))),
                  skip_tokens(Drop(content, n), Comma))
    IN  IF content = <<>> THEN POk(variants, <<>>, left)
        ELSE typed(TypeLen(content))

(* impl Parse for EnumDef *)
EnumDef_parse(input0) ==
    LET built(name, input2, r) ==
            IF r.st # "ok" THEN r
            ELSE POk(EnumDef(name, r.v), Tail(input2), r.left)
        named(name, input2) ==
            IF ~PeekGroup(input2, "brace") THEN PErr
            ELSE built(name, input2,
                       EnumDef_parse_variants(Head(input2).ts, <<>>, FALSE))
        skipped(input1) ==
            IF PeekIdent(input1)
            THEN named(Some(to_static_str(Head(input1).s)), Tail(input1))
            ELSE named(None, input1)
    IN  skipped(skip_keyword(input0, KwEnum))

(* EnumDef::matches_field *)
matches_field(query, field) ==
    IF query.name.some /\ field.name.some /\ field.name.v = query.name.v THEN TRUE
    ELSE query.ty.some /\ field.ty.some /\ field.ty.v = query.ty.v

(* a mutant: two Unit shapes do not match *)
matches_fields_unit_never(query, fields) ==
    /\ query.kind = fields.kind
    /\ query.kind # "Unit"
    /\ \E i \in 1..Len(query.fs) : \E j \in 1..Len(fields.fs) :
           matches_field(query.fs[i], fields.fs[j])

(* EnumDef::matches_fields *)
matches_fields(query, fields) ==
    IF query.kind = "Unit" /\ fields.kind = "Unit" THEN TRUE
    ELSE IF \/ query.kind = "Named" /\ fields.kind = "Named"
            \/ query.kind = "Unnamed" /\ fields.kind = "Unnamed"
    THEN \E i \in 1..Len(query.fs) : \E j \in 1..Len(fields.fs) :
            matches_field(query.fs[i], fields.fs[j])
    ELSE FALSE

(* a mutant: two variants match by their names alone *)
matches_variant_names_only(query, variant) ==
    query.name.some /\ variant.name.some /\ variant.name.v = query.name.v

(* EnumDef::matches_variant *)
matches_variant(query, variant) ==
    IF query.name.some /\ variant.name.some /\ variant.name.v = query.name.v THEN TRUE
    ELSE matches_fields(query.fields, variant.fields)

(* EnumDef::matches_enum_def *)
matches_enum_def(query, enum_def) ==
    IF query.name.some /\ enum_def.name.some /\ enum_def.name.v = query.name.v THEN TRUE
    ELSE \E i \in 1..Len(query.variants) : \E j \in 1..Len(enum_def.variants) :
            matches_variant(query.variants[i], enum_def.variants[j])

(* EnumDef::search_enum_def: enums is a sequence of <<loc, enum_def>> *)
search_enum_def(query, enums) ==
    LET hits == SelectSeq(enums, LAMBDA e : matches_enum_def(query, e[2]))
    IN  [i \in 1..Len(hits) |-> hits[i][1]]

-----------------------------------------------------------------------------
(* Loc (loc.rs): file path, line, column.  A file path is held by the      *)
(* index of the file in the directory walk.                                *)
Loc(file_path, line, column) == [file |-> file_path, line |-> line, col |-> column]
Span(line, column) == [line |-> line, col |-> column]
Loc_from_span(file_path, span) == Loc(file_path, span.line, span.col)

(* A bag of locations: a Vec whose order the program does not fix (it      *)
(* comes from the iteration order of hash tables) and does not use.        *)
BagOfSet(S) == [x \in S |-> 1]
BagAdd(b, c) ==
    [x \in DOMAIN b \cup DOMAIN c |->
        (IF x \in DOMAIN b THEN b[x] ELSE 0) + (IF x \in DOMAIN c THEN c[x] ELSE 0)]
NoLocs == BagOfSet({})
BagRemoveOne(b, x) ==
    [y \in (IF b[x] = 1 THEN DOMAIN b \ {x} ELSE DOMAIN b) |->
        IF y = x THEN b[y] - 1 ELSE b[y]]
RECURSIVE BagSum(_)
BagSum(bags) == IF bags = <<>> THEN NoLocs ELSE BagAdd(Head(bags), BagSum(Tail(bags)))

(* FnSigMap, HashMap<FnSignature, Loc>: a sequence of entries, at most one *)
(* for each class of keys that hash alike and are equal.                   *)
FnSigMap_find(map, k) ==
    {i \in 1..Len(map) : /\ FnSignature_hash(map[i].key) = FnSignature_hash(k)
                         /\ FnSignature_eq(map[i].key, k)}

(* a mutant: an insertion on a key already in the table is dropped *)
FnSigMap_insert_keeps_first(map, k, v) ==
    IF FnSigMap_find(map, k) # {} THEN map
    ELSE Append(map, [key |-> k, loc |-> v])

(* HashMap::insert: the value of an equal key is overwritten *)
FnSigMap_insert(map, k, v) ==
    IF FnSigMap_find(map, k) # {}
    THEN LET i == CHOOSE j \in FnSigMap_find(map, k) : TRUE
         IN  [map EXCEPT ![i].loc = v]
    ELSE Append(map, [key |-> k, loc |-> v])

(* collect::<FnSigMap>() of a file's (signature, location) pairs, in order *)
RECURSIVE FnSigMap_collect(_, _)
FnSigMap_collect(fnsigs, map) ==
    IF fnsigs = <<>> THEN map
    ELSE FnSigMap_collect(Tail(fnsigs),
                          FnSigMap_insert(map, Head(fnsigs).sig, Head(fnsigs).loc))

(* HashMap::get: the locations found, none or one *)
FnSigMap_get(map, k) == {map[i].loc : i \in FnSigMap_find(map, k)}

(* StructDefMap (structmap.rs) *)
EmptyMap == [x \in {} |-> {}]
NoNames == [some |-> FALSE, v |-> {}]

StructDefMap_new ==
    [types |-> EmptyMap, names |-> NoNames, field_names |-> {}, all_defs |-> EmptyMap]

(* a mutant: only the first field of a record is entered *)
StructDefMap_insert_first_field(self, def, loc) ==
    LET fs == IF Fields_iter(def.fields) = <<>> THEN <<>>
              ELSE <<Head(Fields_iter(def.fields))>>
        tys == {fs[i].ty.v : i \in {j \in 1..Len(fs) : fs[j].ty.some}}
    IN  [self EXCEPT
          !.field_names = @ \cup {fs[i].name.v : i \in {j \in 1..Len(fs) : fs[j].name.some}},
          !.types = [t \in DOMAIN @ \cup tys |->
                        (IF t \in DOMAIN @ THEN @[t] ELSE {})
                            \cup (IF t \in tys THEN {loc} ELSE {})],
          !.all_defs = [l \in DOMAIN @ \cup {loc} |-> IF l = loc THEN def ELSE @[l]]]

StructDefMap_insert(self, def, loc) ==
    LET fs == Fields_iter(def.fields)
        tys == {fs[i].ty.v : i \in {j \in 1..Len(fs) : fs[j].ty.some}}
    IN  [self EXCEPT
          !.field_names = @ \cup {fs[i].name.v : i \in {j \in 1..Len(fs) : fs[j].name.some}},
          !.types = [t \in DOMAIN @ \cup tys |->
                        (IF t \in DOMAIN @ THEN @[t] ELSE {})
                            \cup (IF t \in tys THEN {loc} ELSE {})],
          !.all_defs = [l \in DOMAIN @ \cup {loc} |-> IF l = loc THEN def ELSE @[l]]]

(* the byte of a character of a normalized identifier, and the order of   *)
(* str, the lexicographic order of the bytes                               *)
ByteOf ==
    [a |-> 97, b |-> 98, c |-> 99, d |-> 100, e |-> 101, f |-> 102, g |-> 103,
     h |-> 104, i |-> 105, j |-> 106, k |-> 107, l |-> 108, m |-> 109,
     n |-> 110, o |-> 111, p |-> 112, q |-> 113, r |-> 114, s |-> 115,
     t |-> 116, u |-> 117, v |-> 118, w |-> 119, x |-> 120, y |-> 121,
     z |-> 122]
        @@ ("0" :> 48) @@ ("1" :> 49) @@ ("2" :> 50) @@ ("3" :> 51) @@ ("4" :> 52)
        @@ ("5" :> 53) @@ ("6" :> 54) @@ ("7" :> 55) @@ ("8" :> 56) @@ ("9" :> 57)
        @@ ("_" :> 95)

RECURSIVE StrLess(_, _)
StrLess(a, b) ==
    IF b = <<>> THEN FALSE
    ELSE IF a = <<>> THEN TRUE
    ELSE IF Head(a) = Head(b) THEN StrLess(Tail(a), Tail(b))
    ELSE ByteOf[Head(a)] < ByteOf[Head(b)]

(* a mutant: the names are iterated from the greatest to the least *)
RECURSIVE BTreeSet_iter_rev(_)
BTreeSet_iter_rev(S) ==
    IF S = {} THEN <<>>
    ELSE LET m == CHOOSE x \in S : \A y \in S \ {x} : StrLess(y, x)
         IN  <<m>> \o BTreeSet_iter_rev(S \ {m})

(* BTreeSet::iter: the elements in ascending order *)
RECURSIVE BTreeSet_iter(_)
BTreeSet_iter(S) ==
    IF S = {} THEN <<>>
    ELSE LET m == CHOOSE x \in S : \A y \in S \ {x} : StrLess(x, y)
         IN  <<m>> \o BTreeSet_iter(S \ {m})

(* fst::SetBuilder: insert is an error unless the key is greater than the  *)
(* last key inserted                                                       *)
SetBuilder_memory == [keys |-> <<>>, ok |-> TRUE]

SetBuilder_insert(builder, key) ==
    IF builder.keys # <<>> /\ ~StrLess(builder.keys[Len(builder.keys)], key)
    THEN [builder EXCEPT !.ok = FALSE]
    ELSE [builder EXCEPT !.keys = Append(@, key)]

RECURSIVE SetBuilder_insert_all(_, _)
SetBuilder_insert_all(builder, keys) ==
    IF keys = <<>> THEN builder
    ELSE SetBuilder_insert_all(SetBuilder_insert(builder, Head(keys)), Tail(keys))

(* what unwrap_unchecked leaves of the names after an Err: nothing defined *)
UndefinedNames == [some |-> TRUE, v |-> {}, undefined |-> TRUE]

StructDefMap_finalize(self) ==
    LET built(set_builder) ==
            IF set_builder.ok
            THEN [self EXCEPT !.names =
                     [some |-> TRUE,
                      v |-> {set_builder.keys[i] : i \in 1..Len(set_builder.keys)}]]
            ELSE [self EXCEPT !.names = UndefinedNames]
    IN  built(SetBuilder_insert_all(SetBuilder_memory, BTreeSet_iter(self.field_names)))

(* the map was finalized without undefined behaviour *)
StructDefMap_defined(self) == "undefined" \notin DOMAIN self.names

(* a mutant: the locations of a type are returned whatever the record's shape *)
StructDefMap_find_types_any_shape(self, field_type, is_tup) ==
    IF field_type \in DOMAIN self.types
    THEN BagOfSet(self.types[field_type])
    ELSE NoLocs

StructDefMap_find_types(self, field_type, is_tup) ==
    IF field_type \in DOMAIN self.types
    THEN BagOfSet({loc \in self.types[field_type] :
                      /\ loc \in DOMAIN self.all_defs
                      /\ self.all_defs[loc].is_tup = is_tup})
    ELSE NoLocs

(* fst::automaton::Str: the state is the number of bytes of the string     *)
(* matched so far, or None once a byte differs; a key matches when its     *)
(* last state is the length of the string                                  *)
Str_start == Some(0)

(* a mutant: once the whole string is matched every further byte is        *)
(* accepted, as by Str::starts_with                                        *)
Str_accept_starts_with(string, state, byte) ==
    IF state.some /\ state.v = Len(string) THEN state
    ELSE IF state.some /\ state.v < Len(string) /\ string[state.v + 1] = byte
    THEN Some(state.v + 1)
    ELSE None

Str_accept(string, state, byte) ==
    IF state.some /\ state.v < Len(string) /\ string[state.v + 1] = byte
    THEN Some(state.v + 1)
    ELSE None

Str_is_match(string, state) == state = Some(Len(string))

RECURSIVE Str_run(_, _, _)
Str_run(string, state, key) ==
    IF key = <<>> THEN state
    ELSE Str_run(string, Str_accept(string, state, Head(key)), Tail(key))

(* names.search(Str::new(field_name)): the keys of the set the automaton   *)
(* matches                                                                 *)
Names_search(names, field_name) ==
    {n \in names : Str_is_match(field_name, Str_run(field_name, Str_start, n))}

(* a mutant: a lookup made before finalize searches the names collected so *)
(* far                                                                     *)
StructDefMap_find_names_unfinalized(self, field_name, is_tup) ==
    LET found == Names_search(IF self.names.some THEN self.names.v
                              ELSE self.field_names, field_name)
        locs(name) ==
            {loc \in DOMAIN self.all_defs :
                LET def == self.all_defs[loc]
                IN  /\ def.is_tup = is_tup
                    /\ def.fields.kind # "Unit"
                    /\ \E i \in 1..Len(def.fields.fs) :
                          /\ def.fields.fs[i].name.some
                          /\ def.fields.fs[i].name.v = name}
    IN  [loc \in UNION {locs(n) : n \in found} |->
            Cardinality({n \in found : loc \in locs(n)})]

StructDefMap_find_names(self, field_name, is_tup) ==
    IF ~self.names.some THEN NoLocs
    ELSE LET found == Names_search(self.names.v, field_name)
             locs(name) ==
                 {loc \in DOMAIN self.all_defs :
                     LET def == self.all_defs[loc]
                     IN  /\ def.is_tup = is_tup
                         /\ def.fields.kind # "Unit"
                         /\ \E i \in 1..Len(def.fields.fs) :
                               /\ def.fields.fs[i].name.some
                               /\ def.fields.fs[i].name.v = name}
         IN  [loc \in UNION {locs(n) : n \in found} |->
                 Cardinality({n \in found : loc \in locs(n)})]

-----------------------------------------------------------------------------
(* A source file as the file parser gives it: syn::File, a sequence of     *)
(* items with their spans, or a failure.                                   *)
SynFn(span, sig) == [kind |-> "Fn", span |-> span, node |-> sig]
SynStruct(span, s) == [kind |-> "Struct", span |-> span, node |-> s]
SynEnum(span, e) == [kind |-> "Enum", span |-> span, node |-> e]
SynImpl(span, impl_items) == [kind |-> "Impl", span |-> span, node |-> impl_items]
SynOther(span) == [kind |-> "Other", span |-> span, node |-> <<>>]

(* impl_get_fns: the methods of an impl block, each at its own span *)
impl_get_fns(file_path, im) ==
    LET fns == SelectSeq(im, LAMBDA it : it.kind = "Fn")
    IN  [i \in 1..Len(fns) |->
            [sig |-> FnSignature_from(fns[i].node),
             loc |-> Loc_from_span(file_path, fns[i].span)]]

(* the fold of parse over the items of a file *)
RECURSIVE parse_fold(_, _, _)
parse_fold(file_path, ast_items, acc) ==
    IF ast_items = <<>> THEN acc
    ELSE LET syn_item == Head(ast_items)
             loc == Loc_from_span(file_path, syn_item.span)
             acc1 ==
                CASE syn_item.kind = "Fn" ->
                       [acc EXCEPT !.fnsigs =
                           Append(@, [sig |-> FnSignature_from(syn_item.node), loc |-> loc])]
                  [] syn_item.kind = "Struct" ->
                       [acc EXCEPT !.defs =
                           Append(@, [def |-> StructDef_from(syn_item.node), loc |-> loc])]
                  [] syn_item.kind = "Enum" ->
                       [acc EXCEPT !.edefs =
                           Append(@, <<loc, EnumDef_from(syn_item.node)>>)]
                  [] syn_item.kind = "Impl" ->
                       [acc EXCEPT !.fnsigs = @ \o impl_get_fns(file_path, syn_item.node)]
                  [] OTHER -> acc
         IN  parse_fold(file_path, Tail(ast_items), acc1)

(* a mutant: the declarations of a file are taken though the file parser  *)
(* rejects it                                                              *)
parse_lenient(file_path, code) ==
    parse_fold(file_path, code.items,
               [ok |-> TRUE, fnsigs |-> <<>>, defs |-> <<>>, edefs |-> <<>>])

(* parse: the three lists of a file, or the file parser's error *)
parse(file_path, code) ==
    IF ~code.ok THEN [ok |-> FALSE, fnsigs |-> <<>>, defs |-> <<>>, edefs |-> <<>>]
    ELSE parse_fold(file_path, code.items,
                    [ok |-> TRUE, fnsigs |-> <<>>, defs |-> <<>>, edefs |-> <<>>])

(* impl Parse for Item (item.rs): the leading keyword chooses the parser.  *)
(* item.rs has the `fn` and `struct` branches and panics on anything else; *)
(* main.rs matches on Item::EnumDef too, and that branch is taken from the *)
(* query grammar: `enum` gives a union query.                              *)
ItemOf(kind, r) ==
    IF r.st # "ok" THEN r ELSE POk([kind |-> kind, v |-> r.v], r.rest, r.left)

Item_parse_enum(input) ==
    IF PeekKw(input, KwEnum) THEN ItemOf("EnumDef", EnumDef_parse(Tail(input)))
    ELSE PPanic

Item_parse(input) ==
    IF PeekKw(input, KwFn) THEN ItemOf("FnSignature", FnSignature_parse(Tail(input)))
    ELSE IF PeekKw(input, KwStruct) THEN ItemOf("StructDef", StructDef_parse(Tail(input)))
    ELSE Item_parse_enum(input)

(* a mutant: what the parser leaves unparsed is ignored *)
parse_str_Item_lenient(s) == [Item_parse(s) EXCEPT !.rest = <<>>, !.left = FALSE]

(* syn::parse_str::<Item>: the parser's result, and an error when tokens   *)
(* are left over in the string or in one of its groups                     *)
parse_str_Item(s) ==
    LET ended(r) == IF r.st = "ok" /\ (r.rest # <<>> \/ r.left) THEN PErr ELSE r
    IN  ended(Item_parse(s))

(* a mutant: one table for all files *)
fn_maps_global(its) ==
    << FnSigMap_collect(ConcatAll([i \in 1..Len(its) |-> its[i].fnsigs]), <<>>) >>

(* main, Item::FnSignature arm: one table per file, one lookup per table *)
fn_maps(its) ==
    [i \in 1..Len(its) |-> FnSigMap_collect(its[i].fnsigs, <<>>)]

(* a mutant: only the table of the file delivered first is asked *)
fn_results_first_shard(fnsig, its) ==
    LET maps == fn_maps(its)
    IN  IF maps = <<>> THEN NoLocs ELSE BagOfSet(FnSigMap_get(maps[1], fnsig))

fn_results(fnsig, its) ==
    LET maps == fn_maps(its)
    IN  BagSum([i \in 1..Len(maps) |-> BagOfSet(FnSigMap_get(maps[i], fnsig))])

(* main, Item::StructDef arm: one StructDefMap per file, filled, finalized *)
RECURSIVE StructDefMap_insert_all(_, _)
StructDefMap_insert_all(map, defs) ==
    IF defs = <<>> THEN map
    ELSE StructDefMap_insert_all(
             StructDefMap_insert(map, Head(defs).def, Head(defs).loc), Tail(defs))

(* a mutant: the records of all files in one map *)
struct_maps_global(its) ==
    << StructDefMap_finalize(
           StructDefMap_insert_all(StructDefMap_new,
                                   ConcatAll([i \in 1..Len(its) |-> its[i].defs]))) >>

struct_maps(its) ==
    [i \in 1..Len(its) |->
        StructDefMap_finalize(StructDefMap_insert_all(StructDefMap_new, its[i].defs))]

(* the lookup of one query field: by name when it has one, else by type *)
struct_field_results(f, is_tup, maps) ==
    IF f.name.some
    THEN BagSum([i \in 1..Len(maps) |-> StructDefMap_find_names(maps[i], f.name.v, is_tup)])
    ELSE IF f.ty.some
    THEN BagSum([i \in 1..Len(maps) |-> StructDefMap_find_types(maps[i], f.ty.v, is_tup)])
    ELSE NoLocs

(* a mutant: a record found by several query fields is listed once *)
struct_results_dedup(def, its) ==
    LET maps == struct_maps(its)
    IN  BagOfSet(DOMAIN BagSum([i \in 1..Len(def.fields.fs) |->
                   struct_field_results(def.fields.fs[i], def.is_tup, maps)]))

struct_results(def, its) ==
    LET maps == struct_maps(its)
    IN  BagSum([i \in 1..Len(def.fields.fs) |->
                   struct_field_results(def.fields.fs[i], def.is_tup, maps)])

(* main, Item::EnumDef arm: the enums of all files in one sequence *)
enum_edefs(its) == ConcatAll([i \in 1..Len(its) |-> its[i].edefs])

enum_results(edef, its) ==
    LET found == search_enum_def(edef, enum_edefs(its))
    IN  BagSum([i \in 1..Len(found) |-> BagOfSet({found[i]})])

-----------------------------------------------------------------------------
(* The corpus of Spec: the files the directory walk yields.  Every file is *)
(* one of the files below, held in the state by its name.                  *)
i32 == <<"i", "3", "2">>
I32 == <<"I", "3", "2">>
u64 == <<"u", "6", "4">>
bool == <<"b", "o", "o", "l">>
String == <<"S", "t", "r", "i", "n", "g">>

Named(fs) == SynFields("Named", fs)
Unnamed(fs) == SynFields("Unnamed", fs)
SynUnit == SynFields("Unit", <<>>)
NF(name, ty) == SynField(Some(name), ty)
UF(ty) == SynField(None, ty)
Arg(name, ty) == SynTyped(Some(name), ty)

SourceFile(ext_rs, readable, ok, syn_items) ==
    [ext_rs |-> ext_rs, readable |-> readable, code |-> [ok |-> ok, items |-> syn_items]]

(* fn add(x: i32, y: i32) -> i32; struct Point(i32, i32);                  *)
(* fn sum(a: I32, b: i32) -> i32; enum E { V }                             *)
FileA ==
    << SynFn(Span(1, 0), SynSignature(<<"a", "d", "d">>,
                 <<Arg(<<"x">>, i32), Arg(<<"y">>, i32)>>, RetType(i32))),
       SynStruct(Span(2, 0), SynItemStruct(<<"P", "o", "i", "n", "t">>,
                 Unnamed(<<UF(i32), UF(i32)>>))),
       SynFn(Span(3, 0), SynSignature(<<"s", "u", "m">>,
                 <<Arg(<<"a">>, I32), Arg(<<"b">>, i32)>>, RetType(i32))),
       SynEnum(Span(4, 0), SynItemEnum(<<"E">>, <<SynVariant(<<"V">>, SynUnit)>>)) >>

(* fn sum(a: i32, b: i32) -> i32; struct Pair { x: i32, y: i32 };          *)
(* enum F { V(i32), W { a: u64 } }                                         *)
FileB ==
    << SynFn(Span(1, 0), SynSignature(<<"s", "u", "m">>,
                 <<Arg(<<"a">>, i32), Arg(<<"b">>, i32)>>, RetType(i32))),
       SynStruct(Span(2, 0), SynItemStruct(<<"P", "a", "i", "r">>,
                 Named(<<NF(<<"x">>, i32), NF(<<"y">>, i32)>>))),
       SynEnum(Span(3, 0), SynItemEnum(<<"F">>,
                 << SynVariant(<<"V">>, Unnamed(<<UF(i32)>>)),
                    SynVariant(<<"W">>, Named(<<NF(<<"a">>, u64)>>)) >>)) >>

(* struct Rec { a: u64, b: String };                                       *)
(* impl Rec { const K; fn m(&self, x: i32, y: i32) -> i32 }; use ..;       *)
(* fn run() -> (); fn go(); struct U; struct T(u64); enum G { X }          *)
FileC ==
    << SynStruct(Span(1, 0), SynItemStruct(<<"R", "e", "c">>,
                 Named(<<NF(<<"a">>, u64), NF(<<"b">>, String)>>))),
       SynImpl(Span(2, 0),
               << SynOther(Span(3, 4)),
                  SynFn(Span(4, 4), SynSignature(<<"m">>,
                     <<SynReceiver, Arg(<<"x">>, i32), Arg(<<"y">>, i32)>>,
                     RetType(i32))) >>),
       SynOther(Span(5, 0)),
       SynFn(Span(6, 0), SynSignature(<<"r", "u", "n">>, <<>>, RetType(UnitTy))),
       SynFn(Span(7, 0), SynSignature(<<"g", "o">>, <<>>, RetDefault)),
       SynStruct(Span(8, 0), SynItemStruct(<<"U">>, SynUnit)),
       SynStruct(Span(9, 0), SynItemStruct(<<"T">>, Unnamed(<<UF(u64)>>))),
       SynEnum(Span(10, 0), SynItemEnum(<<"G">>, <<SynVariant(<<"X">>, SynUnit)>>)) >>

FileNames == {"a.rs", "b.rs", "c.rs", "bad.rs", "locked.rs", "b.txt"}

FileOf(name) ==
    CASE name = "a.rs" -> SourceFile(TRUE, TRUE, TRUE, FileA)
      [] name = "b.rs" -> SourceFile(TRUE, TRUE, TRUE, FileB)
      [] name = "c.rs" -> SourceFile(TRUE, TRUE, TRUE, FileC)
      [] name = "bad.rs" -> SourceFile(TRUE, TRUE, FALSE, FileB)
      [] name = "locked.rs" -> SourceFile(TRUE, FALSE, TRUE, FileA)
      [] name = "b.txt" -> SourceFile(FALSE, TRUE, TRUE, FileB)

(* The query strings of Spec *)
T(s) == Id(s)
QFnAdd == <<Id(KwFn), Paren(<<T(i32), Comma, T(i32)>>), Arrow, T(i32)>>
QFnCase == <<Id(KwFn), Id(<<"f">>),
             Paren(<<Id(<<"p">>), Colon, T(I32), Comma, Id(<<"q">>), Colon, T(i32)>>),
             Arrow, T(I32)>>
QFnUnit == <<Id(KwFn), Paren(<<>>), Arrow, Paren(<<>>)>>
QFnNone == <<Id(KwFn), Paren(<<>>)>>
QFnOne == <<Id(KwFn), Paren(<<T(i32)>>)>>
QStructXU64 == <<Id(KwStruct), Brace(<<Id(<<"x">>), Colon, T(u64)>>)>>
QStructABool == <<Id(KwStruct), Brace(<<Id(<<"a">>), Colon, T(bool)>>)>>
QStructU64 == <<Id(KwStruct), Brace(<<T(u64)>>)>>
QStructI32 == <<Id(KwStruct), Brace(<<T(I32)>>)>>
QStructTupI32 == <<Id(KwStruct), Paren(<<T(i32)>>)>>
QStructTupEmpty == <<Id(KwStruct), Paren(<<>>)>>
QStructUnit == <<Id(KwStruct), Semi>>
QStructTwo == <<Id(KwStruct),
                Brace(<<Id(<<"a">>), Colon, T(u64), Comma, Id(<<"b">>), Colon, T(bool)>>)>>
QStructThree == <<Id(KwStruct),
                  Brace(<<T(u64), Id(<<"a">>), Colon, T(bool),
                          Id(<<"x">>), Colon, T(u64)>>)>>
QEnumQV == <<Id(KwEnum), Id(<<"Q">>), Brace(<<Id(<<"V">>)>>)>>
QEnumVBraces == <<Id(KwEnum), Brace(<<Id(<<"V">>), Brace(<<>>)>>)>>
QEnumUnit == <<Id(KwEnum), Brace(<<Id(<<"V">>), Comma, Paren(<<>>), Paren(<<>>)>>)>>
QEnumNamed == <<Id(KwEnum), Brace(<<Brace(<<Id(<<"a">>), Colon, T(u64)>>)>>)>>
QBadKeyword == <<Id(<<"f", "o", "o">>)>>
QBadFn == <<Id(KwFn)>>
QBadLeft == <<Id(KwFn), Paren(<<T(i32), T(i32)>>)>>
QBadRet == <<Id(KwFn), Paren(<<>>), Arrow>>

FnQueries == {QFnAdd, QFnCase, QFnUnit, QFnNone, QFnOne}
StructQueries == {QStructXU64, QStructABool, QStructU64, QStructI32, QStructTupI32,
                  QStructTupEmpty, QStructUnit, QStructTwo, QStructThree}
EnumQueries == {QEnumQV, QEnumVBraces, QEnumUnit, QEnumNamed}
BadQueries == {QBadKeyword, QBadFn, QBadLeft, QBadRet}
Queries == FnQueries \cup StructQueries \cup EnumQueries \cup BadQueries

(* the number of files the directory walk yields *)
NumFiles == 2

-----------------------------------------------------------------------------
(* main (main.rs) *)
NoItem == [kind |-> "none", v |-> <<>>]
LineLoc(loc) == [kind |-> "loc", loc |-> loc, n |-> 0]
LineNoResults == [kind |-> "no results", loc |-> Loc(0, 0, 0), n |-> 0]
LineSearched(n) == [kind |-> "searched", loc |-> Loc(0, 0, 0), n |-> n]

Init ==
    /\ argv \in {None} \cup {Some(q) : q \in Queries}
    /\ files \in [1..NumFiles -> FileNames]
    /\ pc = "start"
    /\ pending = {}
    /\ contents = <<>>
    /\ items = <<>>
    /\ query_item = NoItem
    /\ results = NoLocs
    /\ printing = NoLocs
    /\ out = <<>>
    /\ err = <<>>
    /\ pcE = "idle" /\ sigA = <<>> /\ sigB = <<>> /\ fnA = None /\ fnB = None
    /\ eqAB = FALSE /\ eqBA = FALSE /\ hashA = <<>> /\ hashB = <<>>
    /\ sm = <<>> /\ sm_defs = <<>> /\ sm_lookup = <<>>
    /\ pcN = "idle" /\ n_input = <<>> /\ n_enums = <<>> /\ n_query = <<>>
    /\ n_found = <<>>
    /\ pcQ = "idle" /\ q_kind = "" /\ q_elems = <<>>
    /\ q_item_plain = None /\ q_item_comma = None

(* a mutant: the usage is reported and the walk starts all the same *)
Usage_then_walk ==
    /\ pc = "start"
    /\ ~argv.some
    /\ err' = Append(err, "usage")
    /\ pending' = 1..NumFiles
    /\ pc' = "read"
    /\ UNCHANGED <<argv, files, contents, items, query_item, results, printing, out>>
    /\ UNCHANGED <<varsE, varsS, varsN, varsQ>>

(* main.rs 180-184: the argument check *)
Usage ==
    /\ pc = "start"
    /\ ~argv.some
    /\ err' = Append(err, "usage")
    /\ pc' = "exit_failure"
    /\ UNCHANGED <<argv, files, pending, contents, items, query_item, results,
                   printing, out>>
    /\ UNCHANGED <<varsE, varsS, varsN, varsQ>>

(* main.rs 186: the walk starts; its entries go to the parallel workers *)
StartWalk ==
    /\ pc = "start"
    /\ argv.some
    /\ pending' = 1..NumFiles
    /\ pc' = "read"
    /\ UNCHANGED <<argv, files, contents, items, query_item, results, printing,
                   out, err>>
    /\ UNCHANGED <<varsE, varsS, varsN, varsQ>>

(* main.rs 187-192: a worker takes one entry, drops it unless its          *)
(* extension is rs and it can be read, and the results are collected in    *)
(* the order the workers deliver them                                      *)
ReadFile(f) ==
    /\ pc = "read"
    /\ f \in pending
    /\ pending' = pending \ {f}
    /\ contents' = IF FileOf(files[f]).ext_rs /\ FileOf(files[f]).readable
                   THEN Append(contents, f) ELSE contents
    /\ pc' = IF pending' = {} THEN "parse" ELSE "read"
    /\ UNCHANGED <<argv, files, items, query_item, results, printing, out, err>>
    /\ UNCHANGED <<varsE, varsS, varsN, varsQ>>

(* main.rs 195-203: every file read is parsed; a file the parser rejects   *)
(* gives nothing                                                           *)
parse_all(cs, fs) ==
    LET parsed == [i \in 1..Len(cs) |-> parse(cs[i], FileOf(fs[cs[i]]).code)]
        kept == SelectSeq(parsed, LAMBDA p : p.ok)
    IN  [i \in 1..Len(kept) |->
            [fnsigs |-> kept[i].fnsigs, defs |-> kept[i].defs, edefs |-> kept[i].edefs]]

ParseFiles ==
    /\ pc = "parse"
    /\ items' = parse_all(contents, files)
    /\ pc' = "query"
    /\ UNCHANGED <<argv, files, pending, contents, query_item, results, printing,
                   out, err>>
    /\ UNCHANGED <<varsE, varsS, varsN, varsQ>>

(* main.rs 205: syn::parse_str::<Item>(&args[1]).unwrap() *)
ParseQuery ==
    /\ pc = "query"
    /\ LET unwrap(r) ==
               IF r.st = "ok"
               THEN /\ query_item' = r.v
                    /\ pc' = "match"
                    /\ err' = err
               ELSE /\ query_item' = query_item
                    /\ pc' = "panicked"
                    /\ err' = Append(err, "panic")
       IN  unwrap(parse_str_Item(argv.v))
    /\ UNCHANGED <<argv, files, pending, contents, items, results, printing, out>>
    /\ UNCHANGED <<varsE, varsS, varsN, varsQ>>

(* main.rs 206-237: the matcher of the query's kind.  A record query of no *)
(* fields returns from main at once.                                       *)
(* a mutant: a function query returns the unions too *)
match_results_mixed(q, its) ==
    CASE q.kind = "StructDef" -> struct_results(q.v, its)
      [] q.kind = "EnumDef" -> enum_results(q.v, its)
      [] q.kind = "FnSignature" ->
            BagAdd(fn_results(q.v, its),
                   BagOfSet({enum_edefs(its)[k][1] : k \in 1..Len(enum_edefs(its))}))

match_results(q, its) ==
    CASE q.kind = "StructDef" -> struct_results(q.v, its)
      [] q.kind = "EnumDef" -> enum_results(q.v, its)
      [] q.kind = "FnSignature" -> fn_results(q.v, its)

(* the maps of a record query are built without undefined behaviour *)
match_defined(q, its) ==
    q.kind = "StructDef" =>
        \A i \in 1..Len(struct_maps(its)) : StructDefMap_defined(struct_maps(its)[i])

Match ==
    /\ pc = "match"
    /\ IF ~match_defined(query_item, items)
       THEN \* undefined behaviour: the run aborts, or goes on with any result
            /\ pc' \in {"panicked", "print"}
            /\ results' \in {NoLocs, match_results(query_item, items)}
            /\ printing' = results'
            /\ err' = IF pc' = "panicked" THEN Append(err, "panic") ELSE err
       ELSE IF query_item.kind = "StructDef" /\ query_item.v.fields.kind = "Unit"
       THEN /\ pc' = "exit_success"
            /\ UNCHANGED <<results, printing, err>>
       ELSE /\ results' = match_results(query_item, items)
            /\ printing' = results'
            /\ pc' = "print"
            /\ err' = err
    /\ UNCHANGED <<argv, files, pending, contents, items, query_item, out>>
    /\ UNCHANGED <<varsE, varsS, varsN, varsQ>>

(* print_results: `[no results]`, or one line for each location, printed   *)
(* by the parallel iterator in any order                                   *)
PrintNoResults ==
    /\ pc = "print"
    /\ DOMAIN results = {}
    /\ out' = Append(out, LineNoResults)
    /\ pc' = "count"
    /\ UNCHANGED <<argv, files, pending, contents, items, query_item, results,
                   printing, err>>
    /\ UNCHANGED <<varsE, varsS, varsN, varsQ>>

PrintLoc(loc) ==
    /\ pc = "print"
    /\ loc \in DOMAIN printing
    /\ out' = Append(out, LineLoc(loc))
    /\ printing' = BagRemoveOne(printing, loc)
    /\ pc' = IF DOMAIN printing' = {} THEN "count" ELSE "print"
    /\ UNCHANGED <<argv, files, pending, contents, items, query_item, results, err>>
    /\ UNCHANGED <<varsE, varsS, varsN, varsQ>>

(* a mutant: the count of the files the file parser accepted *)
PrintCount_parsed ==
    /\ pc = "count"
    /\ out' = Append(out, LineSearched(Len(items)))
    /\ pc' = "exit_success"
    /\ UNCHANGED <<argv, files, pending, contents, items, query_item, results,
                   printing, err>>
    /\ UNCHANGED <<varsE, varsS, varsN, varsQ>>

(* main.rs 239-245: the count of the files read, and success *)
PrintCount ==
    /\ pc = "count"
    /\ out' = Append(out, LineSearched(Len(contents)))
    /\ pc' = "exit_success"
    /\ UNCHANGED <<argv, files, pending, contents, items, query_item, results,
                   printing, err>>
    /\ UNCHANGED <<varsE, varsS, varsN, varsQ>>

Next ==
    \/ Usage
    \/ StartWalk
    \/ \E f \in 1..NumFiles : ReadFile(f)
    \/ ParseFiles
    \/ ParseQuery
    \/ Match
    \/ PrintNoResults
    \/ \E loc \in DOMAIN printing : PrintLoc(loc)
    \/ PrintCount

Spec == Init /\ [][Next]_vars

(* The steps that leave the query stage and the matching stage.  ParseQuery *)
(* and Match are enabled in every state of their stage (the guard of each  *)
(* is its stage alone, and each of their branches assigns the next stage), *)
(* so the steps of Next that satisfy QueryStep are the steps of ParseQuery *)
(* and those that satisfy MatchStep are the steps of Match.                *)
QueryStep == pc = "query" /\ pc' \in {"match", "panicked"}

MatchStep == pc = "match" /\ pc' \in {"print", "exit_success", "panicked"}

(* main is one thread that runs each of its statements to the next, and    *)
(* rayon's pool runs every job it was given (main.rs 179-246): a step of   *)
(* the run that stays possible is taken at last.                           *)
FairSpec ==
    /\ Init
    /\ [][Next]_vars
    /\ WF_vars(Usage)
    /\ WF_vars(StartWalk)
    /\ WF_vars(\E f \in 1..NumFiles : ReadFile(f))
    /\ WF_vars(ParseFiles)
    /\ WF_pc(QueryStep)
    /\ WF_pc(MatchStep)
    /\ WF_vars(PrintNoResults)
    /\ WF_vars(\E loc \in DOMAIN printing : PrintLoc(loc))
    /\ WF_vars(PrintCount)

-----------------------------------------------------------------------------
(* Bounds and input sets of SpecFnEq *)
MaxParams == 2

SeqsUpTo(S, n) == UNION {[1..k -> S] : k \in 0..n}

ParamTypes == {<<"a">>, <<"A">>, <<"a", "a">>}
OutputTypes == {UnitTy, <<"a">>, <<"A">>}
Outputs == {RetDefault} \cup {RetType(t) : t \in OutputTypes}

(* signatures as declarations spell them: named, parameters named x or y *)
SigsA ==
    {SynSignature(<<"f">>, ps, o) :
        ps \in SeqsUpTo({SynTyped(Some(n), t) :
                            n \in {<<"x">>, <<"Y">>}, t \in ParamTypes}, MaxParams),
        o \in Outputs}

(* signatures with another name and patterns that are no identifier *)
SigsB ==
    {SynSignature(<<"G">>, ps, o) :
        ps \in SeqsUpTo({SynTyped(None, t) : t \in ParamTypes}, MaxParams),
        o \in Outputs}

InitE ==
    /\ pcE = "raw"
    /\ sigA \in SigsA
    /\ sigB \in SigsB
    /\ fnA = None /\ fnB = None
    /\ eqAB = FALSE /\ eqBA = FALSE
    /\ hashA = <<>> /\ hashB = <<>>
    /\ argv = None /\ files = <<>> /\ pc = "idle" /\ pending = {}
    /\ contents = <<>> /\ items = <<>> /\ query_item = NoItem
    /\ results = NoLocs /\ printing = NoLocs /\ out = <<>> /\ err = <<>>
    /\ sm = <<>> /\ sm_defs = <<>> /\ sm_lookup = <<>>
    /\ pcN = "idle" /\ n_input = <<>> /\ n_enums = <<>> /\ n_query = <<>>
    /\ n_found = <<>>
    /\ pcQ = "idle" /\ q_kind = "" /\ q_elems = <<>>
    /\ q_item_plain = None /\ q_item_comma = None

BuildSignatures ==
    /\ pcE = "raw"
    /\ fnA' = Some(FnSignature_from(sigA))
    /\ fnB' = Some(FnSignature_from(sigB))
    /\ pcE' = "built"
    /\ UNCHANGED <<sigA, sigB, eqAB, eqBA, hashA, hashB>>
    /\ UNCHANGED <<varsM, varsS, varsN, varsQ>>

CompareSignatures ==
    /\ pcE = "built"
    /\ eqAB' = FnSignature_eq(fnA.v, fnB.v)
    /\ eqBA' = FnSignature_eq(fnB.v, fnA.v)
    /\ hashA' = FnSignature_hash(fnA.v)
    /\ hashB' = FnSignature_hash(fnB.v)
    /\ pcE' = "compared"
    /\ UNCHANGED <<sigA, sigB, fnA, fnB>>
    /\ UNCHANGED <<varsM, varsS, varsN, varsQ>>

NextE == BuildSignatures \/ CompareSignatures

SpecFnEq == InitE /\ [][NextE]_vars

-----------------------------------------------------------------------------
(* SpecStructMap: one StructDefMap in the order main uses it (main.rs      *)
(* 208-220): new, insert for every record of a file, finalize, then the    *)
(* lookups by name and by type with the shape flag of the query.           *)
MaxDefs == 3

(* struct A { a: u64 }; struct B { a: bool, b: U64 }; struct C(u64);       *)
(* struct D(bool, u64); struct E;  struct F { ab: bool }                   *)
StructCorpus ==
    { SynItemStruct(<<"A">>, Named(<<NF(<<"a">>, u64)>>)),
      SynItemStruct(<<"B">>, Named(<<NF(<<"a">>, bool), NF(<<"b">>, <<"U", "6", "4">>)>>)),
      SynItemStruct(<<"C">>, Unnamed(<<UF(u64)>>)),
      SynItemStruct(<<"D">>, Unnamed(<<UF(bool), UF(u64)>>)),
      SynItemStruct(<<"E">>, SynUnit),
      SynItemStruct(<<"F">>, Named(<<NF(<<"a", "b">>, bool)>>)) }

LookupTypes == {u64, bool, i32}
LookupNames == {<<"a">>, <<"b">>, <<"u", "6", "4">>}

NoLookup == [kind |-> "none", key |-> <<>>, is_tup |-> FALSE, found |-> NoLocs]

InitS ==
    /\ sm = StructDefMap_new
    /\ sm_defs = <<>>
    /\ sm_lookup = NoLookup
    /\ argv = None /\ files = <<>> /\ pc = "idle" /\ pending = {}
    /\ contents = <<>> /\ items = <<>> /\ query_item = NoItem
    /\ results = NoLocs /\ printing = NoLocs /\ out = <<>> /\ err = <<>>
    /\ pcE = "idle" /\ sigA = <<>> /\ sigB = <<>> /\ fnA = None /\ fnB = None
    /\ eqAB = FALSE /\ eqBA = FALSE /\ hashA = <<>> /\ hashB = <<>>
    /\ pcN = "idle" /\ n_input = <<>> /\ n_enums = <<>> /\ n_query = <<>>
    /\ n_found = <<>>
    /\ pcQ = "idle" /\ q_kind = "" /\ q_elems = <<>>
    /\ q_item_plain = None /\ q_item_comma = None

(* map.insert(def, loc): the k-th record of the file stands at line k *)
Insert(s) ==
    /\ ~sm.names.some
    /\ Len(sm_defs) < MaxDefs
    /\ sm' = StructDefMap_insert(sm, StructDef_from(s), Loc(1, Len(sm_defs) + 1, 0))
    /\ sm_defs' = Append(sm_defs, [item |-> s, loc |-> Loc(1, Len(sm_defs) + 1, 0)])
    /\ UNCHANGED sm_lookup
    /\ UNCHANGED <<varsM, varsE, varsN, varsQ>>

Finalize ==
    /\ ~sm.names.some
    /\ sm' = StructDefMap_finalize(sm)
    /\ UNCHANGED <<sm_defs, sm_lookup>>
    /\ UNCHANGED <<varsM, varsE, varsN, varsQ>>

FindTypes(ty, is_tup) ==
    /\ sm.names.some
    /\ sm_lookup' = [kind |-> "types", key |-> ty, is_tup |-> is_tup,
                     found |-> StructDefMap_find_types(sm, to_static_str(ty), is_tup)]
    /\ UNCHANGED <<sm, sm_defs>>
    /\ UNCHANGED <<varsM, varsE, varsN, varsQ>>

FindNames(name, is_tup) ==
    /\ sm.names.some
    /\ sm_lookup' = [kind |-> "names", key |-> name, is_tup |-> is_tup,
                     found |-> StructDefMap_find_names(sm, to_static_str(name), is_tup)]
    /\ UNCHANGED <<sm, sm_defs>>
    /\ UNCHANGED <<varsM, varsE, varsN, varsQ>>

(* structmap.rs 71-73: find_names called on a map that was not finalized *)
FindNamesUnfinalized(name, is_tup) ==
    /\ ~sm.names.some
    /\ sm_lookup' = [kind |-> "names_unfinalized", key |-> name, is_tup |-> is_tup,
                     found |-> StructDefMap_find_names(sm, to_static_str(name), is_tup)]
    /\ UNCHANGED <<sm, sm_defs>>
    /\ UNCHANGED <<varsM, varsE, varsN, varsQ>>

NextS ==
    \/ \E s \in StructCorpus : Insert(s)
    \/ Finalize
    \/ \E ty \in LookupTypes, is_tup \in BOOLEAN : FindTypes(ty, is_tup)
    \/ \E name \in LookupNames, is_tup \in BOOLEAN : FindNames(name, is_tup)
    \/ \E name \in LookupNames, is_tup \in BOOLEAN : FindNamesUnfinalized(name, is_tup)

SpecStructMap == InitS /\ [][NextS]_vars

-----------------------------------------------------------------------------
(* SpecEnum: a union query is parsed (enumdef.rs 98-174) and searched      *)
(* for (enumdef.rs 30-35) in the enums of a corpus.                        *)
MaxEnums == 2

(* enum E { V }; enum F { V(i32), W { a: u64 } }; enum G { X };            *)
(* enum Q { Y(bool) }; enum H { Z { b: u64 } }                             *)
EnumCorpus ==
    { SynItemEnum(<<"E">>, <<SynVariant(<<"V">>, SynUnit)>>),
      SynItemEnum(<<"F">>, << SynVariant(<<"V">>, Unnamed(<<UF(i32)>>)),
                             SynVariant(<<"W">>, Named(<<NF(<<"a">>, u64)>>)) >>),
      SynItemEnum(<<"G">>, <<SynVariant(<<"X">>, SynUnit)>>),
      SynItemEnum(<<"Q">>, <<SynVariant(<<"Y">>, Unnamed(<<UF(bool)>>))>>),
      SynItemEnum(<<"H">>, <<SynVariant(<<"Z">>, Named(<<NF(<<"b">>, u64)>>))>>) }

(* enum { V(i32) }; enum { { b: bool } }; enum { W { u64 } }; enum { i32 } *)
QEnumVI32 == <<Id(KwEnum), Brace(<<Id(<<"V">>), Paren(<<T(i32)>>)>>)>>
QEnumFieldB == <<Id(KwEnum), Brace(<<Brace(<<Id(<<"b">>), Colon, T(bool)>>)>>)>>
QEnumWU64 == <<Id(KwEnum), Brace(<<Id(<<"W">>), Brace(<<T(u64)>>)>>)>>
QEnumI32 == <<Id(KwEnum), Brace(<<T(i32)>>)>>
QEnumBad == <<Id(KwEnum), Brace(<<Id(<<"V">>), Colon>>)>>

EnumQueryStrings ==
    EnumQueries \cup {QEnumVI32, QEnumFieldB, QEnumWU64, QEnumI32, QEnumBad}

InitN ==
    /\ pcN = "query"
    /\ n_input \in EnumQueryStrings
    /\ n_enums \in UNION {[1..k -> EnumCorpus] : k \in 1..MaxEnums}
    /\ n_query = None
    /\ n_found = <<>>
    /\ argv = None /\ files = <<>> /\ pc = "idle" /\ pending = {}
    /\ contents = <<>> /\ items = <<>> /\ query_item = NoItem
    /\ results = NoLocs /\ printing = NoLocs /\ out = <<>> /\ err = <<>>
    /\ pcE = "idle" /\ sigA = <<>> /\ sigB = <<>> /\ fnA = None /\ fnB = None
    /\ eqAB = FALSE /\ eqBA = FALSE /\ hashA = <<>> /\ hashB = <<>>
    /\ sm = <<>> /\ sm_defs = <<>> /\ sm_lookup = <<>>
    /\ pcQ = "idle" /\ q_kind = "" /\ q_elems = <<>>
    /\ q_item_plain = None /\ q_item_comma = None

(* the enums of the corpus as parse extracts them: the k-th at line k *)
EnumsOf(es) == [k \in 1..Len(es) |-> <<Loc(1, k, 0), EnumDef_from(es[k])>>]

(* the query string is parsed; the `enum` keyword is skipped by the parser *)
ParseEnumQuery ==
    /\ pcN = "query"
    /\ LET parsed(r) ==
               IF r.st = "ok" /\ r.rest = <<>> /\ ~r.left
               THEN /\ n_query' = Some(r.v)
                    /\ pcN' = "search"
               ELSE /\ n_query' = None
                    /\ pcN' = "failed"
       IN  parsed(EnumDef_parse(n_input))
    /\ UNCHANGED <<n_input, n_enums, n_found>>
    /\ UNCHANGED <<varsM, varsE, varsS, varsQ>>

SearchEnums ==
    /\ pcN = "search"
    /\ n_found' = search_enum_def(n_query.v, EnumsOf(n_enums))
    /\ pcN' = "done"
    /\ UNCHANGED <<n_input, n_enums, n_query>>
    /\ UNCHANGED <<varsM, varsE, varsS, varsQ>>

NextN == ParseEnumQuery \/ SearchEnums

SpecEnum == InitN /\ [][NextN]_vars

-----------------------------------------------------------------------------
(* Bounds and input sets of SpecQuery: every list of the query grammar,    *)
(* of one element up to MaxElems elements, written with and without a      *)
(* comma after its last element, and given to syn::parse_str::<Item>.      *)
MaxElems == 2

ListKinds == {"params", "record_fields", "tuple_fields", "variants",
              "variant_named_fields", "variant_unnamed_fields"}

(* `i32` and `x: u64`; `i32` and `u64`; `V` and `W { a: u64 }` *)
NamedOrBare == { <<T(i32)>>, <<Id(<<"x">>), Colon, T(u64)>> }
BareTypes == { <<T(i32)>>, <<T(u64)>> }
VariantTexts == { <<Id(<<"V">>)>>,
                  <<Id(<<"W">>), Brace(<<Id(<<"a">>), Colon, T(u64)>>)>> }

ElemsOf(kind) ==
    CASE kind \in {"params", "record_fields", "variant_named_fields"} -> NamedOrBare
      [] kind \in {"tuple_fields", "variant_unnamed_fields"} -> BareTypes
      [] kind = "variants" -> VariantTexts

(* the elements separated by commas, and the query that holds the list *)
RECURSIVE JoinList(_)
JoinList(elems) ==
    IF Len(elems) = 1 THEN Head(elems)
    ELSE Head(elems) \o <<Comma>> \o JoinList(Tail(elems))

QueryOfList(kind, list) ==
    CASE kind = "params" -> <<Id(KwFn), Paren(list)>>
      [] kind = "record_fields" -> <<Id(KwStruct), Brace(list)>>
      [] kind = "tuple_fields" -> <<Id(KwStruct), Paren(list)>>
      [] kind = "variants" -> <<Id(KwEnum), Brace(list)>>
      [] kind = "variant_named_fields" ->
            <<Id(KwEnum), Brace(<<Id(<<"V">>), Brace(list)>>)>>
      [] kind = "variant_unnamed_fields" ->
            <<Id(KwEnum), Brace(<<Id(<<"V">>), Paren(list)>>)>>

InitQ ==
    /\ pcQ = "input"
    /\ q_kind \in ListKinds
    /\ q_elems \in UNION {[1..k -> ElemsOf(q_kind)] : k \in 1..MaxElems}
    /\ q_item_plain = None
    /\ q_item_comma = None
    /\ argv = None /\ files = <<>> /\ pc = "idle" /\ pending = {}
    /\ contents = <<>> /\ items = <<>> /\ query_item = NoItem
    /\ results = NoLocs /\ printing = NoLocs /\ out = <<>> /\ err = <<>>
    /\ pcE = "idle" /\ sigA = <<>> /\ sigB = <<>> /\ fnA = None /\ fnB = None
    /\ eqAB = FALSE /\ eqBA = FALSE /\ hashA = <<>> /\ hashB = <<>>
    /\ sm = <<>> /\ sm_defs = <<>> /\ sm_lookup = <<>>
    /\ pcN = "idle" /\ n_input = <<>> /\ n_enums = <<>> /\ n_query = <<>>
    /\ n_found = <<>>

(* syn::parse_str::<Item> of the query with the list as it is *)
ParsePlain ==
    /\ pcQ = "input"
    /\ ~q_item_plain.some
    /\ q_item_plain' = Some(parse_str_Item(QueryOfList(q_kind, JoinList(q_elems))))
    /\ UNCHANGED <<pcQ, q_kind, q_elems, q_item_comma>>
    /\ UNCHANGED <<varsM, varsE, varsS, varsN>>

(* syn::parse_str::<Item> of the query with a comma after the last element *)
ParseComma ==
    /\ pcQ = "input"
    /\ ~q_item_comma.some
    /\ q_item_comma' =
          Some(parse_str_Item(QueryOfList(q_kind, JoinList(q_elems) \o <<Comma>>)))
    /\ UNCHANGED <<pcQ, q_kind, q_elems, q_item_plain>>
    /\ UNCHANGED <<varsM, varsE, varsS, varsN>>

NextQ == ParsePlain \/ ParseComma

SpecQuery == InitQ /\ [][NextQ]_vars

-----------------------------------------------------------------------------

(* What the data model says of two signatures: same number of parameters,  *)
(* the same normalized type at every position, the same return type with   *)
(* an absent one equal to `()`.  Names play no part.                       *)
NormRet(o) == IF o.tag = "Default" \/ o.ty = UnitTy THEN <<>> ELSE ToLowercase(o.ty)

TypedInputs(sig) == SelectSeq(sig.inputs, LAMBDA a : ~a.recv)

SameShape(s1, s2) ==
    /\ Len(TypedInputs(s1)) = Len(TypedInputs(s2))
    /\ \A i \in 1..Len(TypedInputs(s1)) :
         ToLowercase(TypedInputs(s1)[i].ty) = ToLowercase(TypedInputs(s2)[i].ty)
    /\ NormRet(s1.output) = NormRet(s2.output)

\* C1: two signatures are equal iff they have the same number of parameters,
\* equal normalized parameter types position by position and equal return
\* types (absent = `()`); names and letter case never change the outcome.
C1_FnEqIffSameShape ==
    pcE = "compared" => /\ eqAB = SameShape(sigA, sigB)
                        /\ eqBA = eqAB

\* witness of C1: two signatures of two parameters each, with different names
\* and different letter case, compared equal; one returns `()`, one nothing
C1_Witness ==
    /\ pcE = "compared"
    /\ eqAB
    /\ Len(sigA.inputs) = 2
    /\ sigA.inputs[1].ty # sigB.inputs[1].ty
    /\ sigA.output = RetType(UnitTy)
    /\ sigB.output = RetDefault

-----------------------------------------------------------------------------
(* The corpus as the claims on a run of main read it: the files that are   *)
(* Rust sources, readable and accepted by the file parser, and what they   *)
(* declare, in the order of the text.                                      *)
GoodFile(f) ==
    /\ FileOf(files[f]).ext_rs
    /\ FileOf(files[f]).readable
    /\ FileOf(files[f]).code.ok

TextOf(f) == FileOf(files[f]).code.items

DeclLoc(f, it) == Loc(f, it.span.line, it.span.col)

(* functions and methods of impl blocks, in the order of the text *)
RECURSIVE FnDeclsOf(_)
FnDeclsOf(text) ==
    IF text = <<>> THEN <<>>
    ELSE (IF Head(text).kind = "Fn" THEN <<Head(text)>>
          ELSE IF Head(text).kind = "Impl"
               THEN SelectSeq(Head(text).node, LAMBDA m : m.kind = "Fn")
               ELSE <<>>) \o FnDeclsOf(Tail(text))

DeclsOf(f, kind) == SelectSeq(TextOf(f), LAMBDA it : it.kind = kind)

(* a parsed function query and a declared signature have the same shape *)
QueryShape(q, sig) ==
    /\ Len(q.inputs) = Len(TypedInputs(sig))
    /\ \A i \in 1..Len(q.inputs) :
         /\ q.inputs[i].ty.some
         /\ ToLowercase(q.inputs[i].ty.v) = ToLowercase(TypedInputs(sig)[i].ty)
    /\ NormRet(q.output) = NormRet(sig.output)

SameShapeDecls(f, q) == SelectSeq(FnDeclsOf(TextOf(f)), LAMBDA d : QueryShape(q, d.node))

RECURSIVE BagTotal(_, _)
BagTotal(b, S) ==
    IF S = {} THEN 0
    ELSE LET x == CHOOSE y \in S : TRUE IN b[x] + BagTotal(b, S \ {x})

(* the number of result locations that lie in file f *)
FileCount(b, f) == BagTotal(b, {loc \in DOMAIN b : loc.file = f})

Matched == pc \in {"print", "count", "exit_success"} /\ query_item.kind # "none"

\* C2: for a function query, a file that declares two or more functions of
\* the query's shape yields exactly one result location for that file, the
\* location of the declaration extracted last from it.
C2_LastDeclarationWins ==
    (Matched /\ query_item.kind = "FnSignature") =>
        \A f \in 1..NumFiles :
            (GoodFile(f) /\ Len(SameShapeDecls(f, query_item.v)) >= 2) =>
                LET same == SameShapeDecls(f, query_item.v)
                IN  /\ FileCount(results, f) = 1
                    /\ DeclLoc(f, same[Len(same)]) \in DOMAIN results

\* witness of C2: a.rs declares `add` at line 1 and `sum` at line 3 with the
\* shape of the query; the result holds line 3 and not line 1
C2_Witness ==
    /\ pc = "print"
    /\ argv = Some(QFnAdd)
    /\ \E f \in 1..NumFiles :
          /\ files[f] = "a.rs"
          /\ Loc(f, 3, 0) \in DOMAIN results
          /\ Loc(f, 1, 0) \notin DOMAIN results

\* C3: for a function query, every parsed file that declares a function
\* equal to the query contributes exactly one location, whatever the other
\* files declare, and a file with no equal function contributes nothing.
C3_OneLocationPerFile ==
    (Matched /\ query_item.kind = "FnSignature") =>
        \A f \in 1..NumFiles :
            FileCount(results, f) =
                IF GoodFile(f) /\ SameShapeDecls(f, query_item.v) # <<>> THEN 1 ELSE 0

\* witness of C3: a.rs, with its two declarations of the shape, and b.rs, with
\* one, are both searched, each gives one location
C3_Witness ==
    /\ pc = "print"
    /\ argv = Some(QFnAdd)
    /\ \E f, g \in 1..NumFiles :
          /\ files[f] = "a.rs" /\ files[g] = "b.rs"
          /\ Loc(f, 3, 0) \in DOMAIN results
          /\ Loc(g, 1, 0) \in DOMAIN results
          /\ FileCount(results, f) = 1 /\ FileCount(results, g) = 1

(* a query field and a declared field: equal names, equal types *)
FieldNameEq(qf, df) ==
    qf.name.some /\ df.ident.some /\ qf.name.v = ToLowercase(df.ident.v)

FieldTypeEq(qf, df) == qf.ty.some /\ qf.ty.v = ToLowercase(df.ty)

(* the record criterion of a parsed record query q on a declared record *)
RecordCriterion(q, decl) ==
    /\ q.is_tup = (decl.fields.kind = "Unnamed")
    /\ \E i \in 1..Len(q.fields.fs) : \E j \in 1..Len(decl.fields.fs) :
          \/ FieldNameEq(q.fields.fs[i], decl.fields.fs[j])
          \/ FieldTypeEq(q.fields.fs[i], decl.fields.fs[j])

\* C4: a record declaration is in the result of a record query iff some query
\* field's name equals the name of one of its fields or some query field's
\* type equals the type of one of its fields, the shapes being equal; the
\* record {a: u64, b: String} is matched by {x: u64} and by {a: bool}.
C4_RecordOrSemantics ==
    (Matched /\ query_item.kind = "StructDef") =>
        \A f \in 1..NumFiles : GoodFile(f) =>
            \A k \in 1..Len(DeclsOf(f, "Struct")) :
                LET d == DeclsOf(f, "Struct")[k]
                IN  (DeclLoc(f, d) \in DOMAIN results)
                        <=> RecordCriterion(query_item.v, d.node)

\* C5: a lookup with the tuple flag never returns the location of a
\* named-field record and a lookup with the named flag never returns the
\* location of a tuple record, whatever names and types are equal.
C5_ShapeIsolation ==
    sm_lookup.kind # "none" =>
        \A loc \in DOMAIN sm_lookup.found :
            \E i \in 1..Len(sm_defs) :
                /\ sm_defs[i].loc = loc
                /\ sm_lookup.is_tup = (sm_defs[i].item.fields.kind = "Unnamed")

\* witness of C5: a tuple lookup of type u64 finds a tuple record while a
\* named record with a field of type u64 is in the map too
C5_Witness ==
    /\ sm_lookup.kind = "types"
    /\ sm_lookup.is_tup
    /\ sm_lookup.key = u64
    /\ DOMAIN sm_lookup.found # {}
    /\ \E i \in 1..Len(sm_defs) :
          /\ sm_defs[i].item.fields.kind = "Named"
          /\ \E j \in 1..Len(sm_defs[i].item.fields.fs) :
                sm_defs[i].item.fields.fs[j].ty = u64

\* C6: the query `struct(i32)` is parsed into one unnamed field of type i32
\* and returns the location of every tuple record with a field of type i32:
\* Point's location and only that one.
C6_TupleQueryFindsPoint ==
    (argv = Some(QStructTupI32) /\ pc \notin {"start", "read", "parse", "query"}) =>
        /\ pc # "panicked"
        /\ query_item.kind = "StructDef"
        /\ query_item.v.is_tup
        /\ Matched =>
              \A f \in 1..NumFiles : GoodFile(f) =>
                  \A k \in 1..Len(DeclsOf(f, "Struct")) :
                      LET d == DeclsOf(f, "Struct")[k]
                      IN  (DeclLoc(f, d) \in DOMAIN results)
                              <=> /\ d.node.fields.kind = "Unnamed"
                                  /\ \E j \in 1..Len(d.node.fields.fs) :
                                        ToLowercase(d.node.fields.fs[j].ty) = i32

(* the union criterion of a parsed union query q on a declared union:      *)
(* (a) the names, (b) two variant names, (c) two fields of two variants of *)
(* the same shape kind                                                     *)
UnionByName(q, decl) == q.name.some /\ q.name.v = ToLowercase(decl.ident)

UnionByVariantName(q, decl) ==
    \E i \in 1..Len(q.variants) : \E j \in 1..Len(decl.variants) :
        /\ q.variants[i].name.some
        /\ q.variants[i].name.v = ToLowercase(decl.variants[j].ident)

UnionByField(q, decl) ==
    \E i \in 1..Len(q.variants) : \E j \in 1..Len(decl.variants) :
        /\ q.variants[i].fields.kind = decl.variants[j].fields.kind
        /\ \E k \in 1..Len(q.variants[i].fields.fs) :
           \E l \in 1..Len(decl.variants[j].fields.fs) :
              \/ FieldNameEq(q.variants[i].fields.fs[k], decl.variants[j].fields.fs[l])
              \/ FieldTypeEq(q.variants[i].fields.fs[k], decl.variants[j].fields.fs[l])

UnionByUnit(q, decl) ==
    \E i \in 1..Len(q.variants) : \E j \in 1..Len(decl.variants) :
        q.variants[i].fields.kind = "Unit" /\ decl.variants[j].fields.kind = "Unit"

Occurrences(seq, x) == Cardinality({i \in 1..Len(seq) : seq[i] = x})

\* C7 as stated: a union query returns, each exactly once, the locations of
\* exactly the declarations that meet (a), (b) or (c).
C7_UnionCriterionAsStated ==
    pcN = "done" =>
        \A k \in 1..Len(n_enums) :
            Occurrences(n_found, Loc(1, k, 0)) =
                IF \/ UnionByName(n_query.v, n_enums[k])
                   \/ UnionByVariantName(n_query.v, n_enums[k])
                   \/ UnionByField(n_query.v, n_enums[k])
                THEN 1 ELSE 0

\* C7: a union query returns, each exactly once, the locations of exactly
\* the declarations that meet (a), (b) or (c), or that have a variant of the
\* Unit shape when the query has one; variants of different shape kinds never
\* match through their fields.
C7_UnionCriterion ==
    pcN = "done" =>
        \A k \in 1..Len(n_enums) :
            Occurrences(n_found, Loc(1, k, 0)) =
                IF \/ UnionByName(n_query.v, n_enums[k])
                   \/ UnionByVariantName(n_query.v, n_enums[k])
                   \/ UnionByField(n_query.v, n_enums[k])
                   \/ UnionByUnit(n_query.v, n_enums[k])
                THEN 1 ELSE 0

\* witness of C7: the query `enum { V, ()() }`, whose variant v has the Unit
\* shape, finds `enum G { X }`, with no name and no field in common
C7_Witness ==
    /\ pcN = "done"
    /\ n_input = QEnumUnit
    /\ \E k \in 1..Len(n_enums) :
          /\ n_enums[k].ident = <<"G">>
          /\ Loc(1, k, 0) \in {n_found[i] : i \in 1..Len(n_found)}

\* C8: the query `enum Q { V }` matches every union declaration that has a
\* variant named V, whatever that variant's fields and the union's name.
C8_VariantNameShortCircuit ==
    (pcN = "done" /\ n_input = QEnumQV) =>
        \A k \in 1..Len(n_enums) :
            (\E j \in 1..Len(n_enums[k].variants) :
                 n_enums[k].variants[j].ident = <<"V">>)
                => Loc(1, k, 0) \in {n_found[i] : i \in 1..Len(n_found)}

(* the query strings no reading of the query grammar accepts *)
Malformed(q) == q \in BadQueries

\* C9: when the query string fails to parse the run aborts with an error, no
\* output line has been printed, the failure is not retried (the run takes no
\* further step) and no part of the query is accepted.
C9_QueryFailureAborts ==
    /\ pc = "panicked" =>
          /\ out = <<>>
          /\ err = <<"panic">>
          /\ query_item = NoItem
          /\ results = NoLocs
          /\ ~ENABLED Next
    /\ (argv.some /\ Malformed(argv.v)) =>
          /\ pc \notin {"match", "print", "count", "exit_success"}
          /\ query_item = NoItem
          /\ out = <<>>

\* witness of C9: the query `fn(i32 i32)` has aborted the run, after files
\* with matching declarations were read and parsed
C9_Witness ==
    /\ pc = "panicked"
    /\ argv = Some(QBadLeft)
    /\ Len(items) = NumFiles
    /\ err = <<"panic">>

(* the items of the corpus without the files that are not read or that the *)
(* file parser rejects, in the order the files were delivered              *)
GoodContents == SelectSeq(contents, LAMBDA f : GoodFile(f))

ItemsOfGood ==
    [i \in 1..Len(GoodContents) |->
        LET parsed == parse(GoodContents[i], FileOf(files[GoodContents[i]]).code)
        IN  [fnsigs |-> parsed.fnsigs, defs |-> parsed.defs, edefs |-> parsed.edefs]]

ItemLocs(its) ==
    UNION {{its[i].fnsigs[k].loc : k \in 1..Len(its[i].fnsigs)}
             \cup {its[i].defs[k].loc : k \in 1..Len(its[i].defs)}
             \cup {its[i].edefs[k][1] : k \in 1..Len(its[i].edefs)} : i \in 1..Len(its)}

\* C10: a file that cannot be read or that the file parser rejects gives no
\* declaration to any shard and does not stop the run: the result equals the
\* result of the query over the corpus without that file.
C10_BadFilesDropped ==
    /\ \A loc \in ItemLocs(items) \cup DOMAIN results : GoodFile(loc.file)
    /\ pc \in {"query", "match", "print", "count", "exit_success", "panicked"} =>
          items = ItemsOfGood
    /\ Matched => results = match_results(query_item, ItemsOfGood)
    /\ pc = "panicked" => parse_str_Item(argv.v).st # "ok"

\* witness of C10: a run over a rejected or unreadable file and a good one has
\* printed the good file's location and ended with the count
C10_Witness ==
    /\ pc = "exit_success"
    /\ \E f \in 1..NumFiles : files[f] \in {"bad.rs", "locked.rs"}
    /\ DOMAIN results # {}
    /\ Len(out) >= 2
    /\ out[Len(out)].kind = "searched"

-----------------------------------------------------------------------------
\* C11: when the query argument is missing, the process reports usage and
\* exits with failure: no file is taken, read or parsed, no query is parsed,
\* and no line is printed on the standard output.
C11_UsageNothingSearched ==
    ~argv.some =>
        /\ pc \in {"start", "exit_failure"}
        /\ pending = {} /\ contents = <<>> /\ items = <<>>
        /\ query_item = NoItem
        /\ DOMAIN results = {}
        /\ out = <<>>
        /\ err = IF pc = "exit_failure" THEN <<"usage">> ELSE <<>>

\* witness of C11: a run without the argument has ended in failure, over a
\* directory that holds a source file which would have been read
C11_Witness ==
    /\ ~argv.some
    /\ pc = "exit_failure"
    /\ err = <<"usage">>
    /\ \E f \in 1..NumFiles : GoodFile(f)

\* C12: a run whose query parsed prints one line for each result location, or
\* the one line `[no results]` exactly when there is no result, and in every
\* case ends its output with the line that counts the files searched.
C12_OutputFormat ==
    pc = "exit_success" =>
        /\ out # <<>>
        /\ out[Len(out)] = LineSearched(Len(contents))
        /\ LET body == SubSeq(out, 1, Len(out) - 1)
           IN  IF DOMAIN results = {} THEN body = <<LineNoResults>>
               ELSE /\ \A i \in 1..Len(body) : body[i].kind = "loc"
                    /\ Len(body) = BagTotal(results, DOMAIN results)
                    /\ \A loc \in DOMAIN results :
                          Occurrences(body, LineLoc(loc)) = results[loc]

\* C13: matching never fails: once the query is parsed, no corpus makes the
\* run abort or write an error; the only abort of a run is the query's parse.
C13_MatchingNeverFails ==
    /\ pc = "panicked" => query_item = NoItem
    /\ query_item # NoItem =>
          /\ err = <<>>
          /\ pc \in {"match", "print", "count", "exit_success"}
          /\ match_defined(query_item, items)

\* witness of C13: a record query was matched against c.rs, whose record has
\* two field names for the name index, and found nothing
C13_Witness ==
    /\ pc = "count"
    /\ argv = Some(QStructXU64)
    /\ \E f \in 1..NumFiles : files[f] = "c.rs"
    /\ DOMAIN results = {}
    /\ out = <<LineNoResults>>

(* the sets of locations held by each lookup structure the matcher of q    *)
(* builds over the parsed files                                            *)
ShardLocs(q, its) ==
    CASE q.kind = "FnSignature" ->
            [i \in 1..Len(fn_maps(its)) |->
                {fn_maps(its)[i][k].loc : k \in 1..Len(fn_maps(its)[i])}]
      [] q.kind = "StructDef" ->
            [i \in 1..Len(struct_maps(its)) |->
                DOMAIN struct_maps(its)[i].all_defs
                    \cup UNION {struct_maps(its)[i].types[ty] :
                                   ty \in DOMAIN struct_maps(its)[i].types}]
      [] q.kind = "EnumDef" ->
            << {enum_edefs(its)[k][1] : k \in 1..Len(enum_edefs(its))} >>

SingleFile(locs) == \A l1, l2 \in locs : l1.file = l2.file

(* the locations of the declarations of a kind in a file *)
DeclLocs(f, kind) ==
    {DeclLoc(f, DeclsOf(f, kind)[k]) : k \in 1..Len(DeclsOf(f, kind))}

WalkOrder ==
    SelectSeq([f \in 1..NumFiles |-> f],
              LAMBDA f : \E i \in 1..Len(contents) : contents[i] = f)

\* C15: for a fixed corpus and query, the multiset of the locations found and
\* printed is the same for every order in which the workers deliver the files
\* and print the lines: it is the one of the walk's own order.
C15_OrderIndependent ==
    /\ Matched => results = match_results(query_item, parse_all(WalkOrder, files))
    /\ pc \in {"count", "exit_success"} =>
          \A i \in 1..Len(out) :
              out[i].kind = "loc" =>
                  /\ out[i].loc \in DOMAIN results
                  /\ Occurrences(out, out[i]) = results[out[i].loc]
    /\ pc \in {"count", "exit_success"} =>
          \A loc \in DOMAIN results : Occurrences(out, LineLoc(loc)) = results[loc]

\* witness of C15: the second file of the walk was delivered before the
\* first, both gave a location, and the first file's line was printed first
C15_Witness ==
    /\ pc = "exit_success"
    /\ contents = <<2, 1>>
    /\ Len(out) = 3
    /\ out[1].kind = "loc" /\ out[1].loc.file = 1
    /\ out[2].kind = "loc" /\ out[2].loc.file = 2

(* the kind of query a leading keyword stands for, and the locations of    *)
(* the declarations of a kind in a file                                    *)
KeywordKind(kw) ==
    CASE kw = KwFn -> "FnSignature"
      [] kw = KwStruct -> "StructDef"
      [] kw = KwEnum -> "EnumDef"

KindLocs(f, kind) ==
    CASE kind = "FnSignature" ->
            {DeclLoc(f, FnDeclsOf(TextOf(f))[k]) : k \in 1..Len(FnDeclsOf(TextOf(f)))}
      [] kind = "StructDef" -> DeclLocs(f, "Struct")
      [] kind = "EnumDef" -> DeclLocs(f, "Enum")

KindField(kind) ==
    CASE kind = "FnSignature" -> "inputs"
      [] kind = "StructDef" -> "is_tup"
      [] kind = "EnumDef" -> "variants"

C17_TrailingComma ==
    (q_item_plain.some /\ q_item_comma.some) =>
        /\ q_item_plain.v.st = "ok"
        /\ q_item_comma.v.st = "ok"
        /\ q_item_comma.v.v = q_item_plain.v.v

(* a declared record has a field of this normalized name, of this type *)
HasFieldNamed(s, name) ==
    \E j \in 1..Len(s.fields.fs) :
        /\ s.fields.fs[j].ident.some
        /\ ToLowercase(s.fields.fs[j].ident.v) = name

HasFieldTyped(s, ty) ==
    \E j \in 1..Len(s.fields.fs) : ToLowercase(s.fields.fs[j].ty) = ty

\* C18: a name lookup returns the location of an inserted record iff the
\* record's tuple flag equals the lookup's and the record has a field whose
\* normalized name is equal to the name asked; a name that is only a strict
\* prefix of a field name does not match.
C18_NameLookupExact ==
    sm_lookup.kind = "names" =>
        \A i \in 1..Len(sm_defs) :
            (sm_defs[i].loc \in DOMAIN sm_lookup.found) <=>
                /\ sm_lookup.is_tup = (sm_defs[i].item.fields.kind = "Unnamed")
                /\ HasFieldNamed(sm_defs[i].item, ToLowercase(sm_lookup.key))

\* witness of C18: the name a is looked up and found, while a record with the
\* field ab and no field a is in the map and is not returned
C18_Witness ==
    /\ sm_lookup.kind = "names"
    /\ sm_lookup.key = <<"a">>
    /\ ~sm_lookup.is_tup
    /\ DOMAIN sm_lookup.found # {}
    /\ \E i \in 1..Len(sm_defs) :
          /\ HasFieldNamed(sm_defs[i].item, <<"a", "b">>)
          /\ ~HasFieldNamed(sm_defs[i].item, <<"a">>)
          /\ sm_defs[i].loc \notin DOMAIN sm_lookup.found

(* the normalized field types and field names of the records inserted *)
InsertedTypes ==
    UNION {{ToLowercase(sm_defs[i].item.fields.fs[j].ty) :
               j \in 1..Len(sm_defs[i].item.fields.fs)} :
              i \in 1..Len(sm_defs)}

InsertedNames ==
    UNION {{ToLowercase(sm_defs[i].item.fields.fs[j].ident.v) :
               j \in {k \in 1..Len(sm_defs[i].item.fields.fs) :
                         sm_defs[i].item.fields.fs[k].ident.some}} :
              i \in 1..Len(sm_defs)}

\* C19: after any sequence of insertions the type index maps a type to
\* exactly the locations of the inserted records with a field of that type,
\* the field-name set is the set of the distinct field names inserted, the
\* location table maps every inserted location to its own record, and a type
\* lookup returns the locations of the type whose record has the flag asked.
C19_IndexContents ==
    /\ DOMAIN sm.types = InsertedTypes
    /\ \A ty \in InsertedTypes :
          sm.types[ty] = {sm_defs[i].loc : i \in {k \in 1..Len(sm_defs) :
                                                    HasFieldTyped(sm_defs[k].item, ty)}}
    /\ sm.field_names = InsertedNames
    /\ DOMAIN sm.all_defs = {sm_defs[i].loc : i \in 1..Len(sm_defs)}
    /\ \A i \in 1..Len(sm_defs) :
          sm.all_defs[sm_defs[i].loc] = StructDef_from(sm_defs[i].item)
    /\ sm_lookup.kind = "types" =>
          DOMAIN sm_lookup.found =
              {sm_defs[i].loc : i \in {k \in 1..Len(sm_defs) :
                  /\ HasFieldTyped(sm_defs[k].item, ToLowercase(sm_lookup.key))
                  /\ sm_lookup.is_tup = (sm_defs[k].item.fields.kind = "Unnamed")}}

\* witness of C19: three records inserted, two names in the name set, the
\* type u64 indexed at several locations, and a lookup of it that the flag
\* narrows
C19_Witness ==
    /\ Len(sm_defs) = 3
    /\ Cardinality(sm.field_names) >= 2
    /\ u64 \in DOMAIN sm.types
    /\ Cardinality(sm.types[u64]) >= 2
    /\ sm_lookup.kind = "types"
    /\ sm_lookup.key = u64
    /\ DOMAIN sm_lookup.found # {}
    /\ DOMAIN sm_lookup.found # sm.types[u64]

(* the methods of the impl blocks of a text *)
RECURSIVE MethodsOf(_)
MethodsOf(text) ==
    IF text = <<>> THEN <<>>
    ELSE (IF Head(text).kind = "Impl"
          THEN SelectSeq(Head(text).node, LAMBDA m : m.kind = "Fn")
          ELSE <<>>) \o MethodsOf(Tail(text))

Terminal == pc \in {"exit_failure", "panicked", "exit_success"}

\* C21: every run reaches a terminal state, which is the usage failure, the
\* abort on the query's parse failure, or the completion after printing the
\* results and the count; no read or parse error of a file prevents it.
C21_RunsTerminate ==
    <>(\/ pc = "exit_failure" /\ err = <<"usage">>
       \/ pc = "panicked" /\ query_item = NoItem
       \/ pc = "exit_success" /\ out # <<>>
                              /\ out[Len(out)] = LineSearched(Len(contents)))

(* every run reaches one of its ends, whatever was printed *)
C21_Termination == <>Terminal


\* C22: a name lookup made before finalize returns the empty list whatever
\* was inserted; a map takes its insertions, then one finalize, and lookups
\* after it, and at each such lookup every field name of every inserted
\* record is in the name index.
C22_LookupNeedsFinalize ==
    /\ sm_lookup.kind = "names_unfinalized" => sm_lookup.found = NoLocs
    /\ sm_lookup.kind = "names" =>
          /\ sm.names.some
          /\ InsertedNames \subseteq sm.names.v
    /\ sm.names.some => sm.field_names = InsertedNames

\* witness of C22: a record with the field a is in a map that was not
\* finalized, and the lookup of a finds nothing
C22_Witness ==
    /\ sm_lookup.kind = "names_unfinalized"
    /\ sm_lookup.key = <<"a">>
    /\ ~sm_lookup.is_tup
    /\ ~sm.names.some
    /\ \E i \in 1..Len(sm_defs) :
          /\ sm_defs[i].item.fields.kind = "Named"
          /\ HasFieldNamed(sm_defs[i].item, <<"a">>)
    /\ sm_lookup.found = NoLocs


(* a declared record meets a field of a record query: by the field's name  *)
(* when the query field has one, else by its type                          *)
MeetsField(f, is_tup, s) ==
    /\ is_tup = (s.fields.kind = "Unnamed")
    /\ IF f.name.some THEN HasFieldNamed(s, f.name.v)
       ELSE f.ty.some /\ HasFieldTyped(s, f.ty.v)

FieldsMet(def, s) ==
    Cardinality({i \in 1..Len(def.fields.fs) : MeetsField(def.fields.fs[i], def.is_tup, s)})

\* C23: the result list of a record query is the concatenation of the lookup
\* results of the query's fields, without de-duplication: a record that meets
\* k of the query's fields has its location listed k times, and a record that
\* meets none is not listed.
C23_RecordListedPerField ==
    (Matched /\ query_item.kind = "StructDef") =>
        /\ \A f \in 1..NumFiles : GoodFile(f) =>
              \A k \in 1..Len(DeclsOf(f, "Struct")) :
                 LET decl == DeclsOf(f, "Struct")[k]
                     met == FieldsMet(query_item.v, decl.node)
                 IN  IF met = 0 THEN DeclLoc(f, decl) \notin DOMAIN results
                     ELSE /\ DeclLoc(f, decl) \in DOMAIN results
                          /\ results[DeclLoc(f, decl)] = met
        /\ \A loc \in DOMAIN results :
              GoodFile(loc.file) /\ loc \in DeclLocs(loc.file, "Struct")

\* witness of C23: the query `struct { u64 a: bool x: u64 }` lists Rec of c.rs
\* twice (by the type u64 and by the name a), Pair of b.rs once (by the name
\* x), and not the tuple record T(u64) of c.rs
C23_Witness ==
    /\ Matched
    /\ argv = Some(QStructThree)
    /\ Len(query_item.v.fields.fs) = 3
    /\ \E f, g \in 1..NumFiles :
          /\ files[f] = "c.rs" /\ files[g] = "b.rs"
          /\ Loc(f, 1, 0) \in DOMAIN results /\ results[Loc(f, 1, 0)] = 2
          /\ Loc(g, 2, 0) \in DOMAIN results /\ results[Loc(g, 2, 0)] = 1
          /\ Loc(f, 9, 0) \notin DOMAIN results


(* a parsed union query, or a declared union, has a variant without fields *)
HasUnitVariant(variants) ==
    \E i \in 1..Len(variants) : variants[i].fields.kind = "Unit"

\* C24: a query variant of the Unit shape matches every declared variant of
\* the Unit shape, whatever the names of the two, so a query with such a
\* variant finds every union that has at least one variant without fields.
C24_UnitMatchesUnit ==
    (pcN = "done" /\ HasUnitVariant(n_query.v.variants)) =>
        \A k \in 1..Len(n_enums) :
            HasUnitVariant(n_enums[k].variants) =>
                Occurrences(n_found, Loc(1, k, 0)) = 1

\* witness of C24: the query `enum { V, ()() }` is searched in `enum G { X }`
\* and `enum Q { Y(bool) }`; its Unit variant is named v, G is found by its
\* variant X and Q, without a Unit variant, is not
C24_Witness ==
    /\ pcN = "done"
    /\ HasUnitVariant(n_query.v.variants)
    /\ \A i \in 1..Len(n_query.v.variants) :
          n_query.v.variants[i].name.some => n_query.v.variants[i].name.v # <<"x">>
    /\ Len(n_enums) = 2
    /\ n_enums[1].ident = <<"G">>
    /\ n_enums[2].ident = <<"Q">>
    /\ n_found = <<Loc(1, 1, 0)>>


(* a file's function table that holds the one signature sig *)
TableOf(sig) == FnSigMap_collect(<<[sig |-> sig, loc |-> Loc(1, 1, 0)]>>, <<>>)

\* C25: hashing of function signatures is consistent with their equality: two
\* signatures that are equal have the same hashed data, so a lookup in a
\* function table finds the entry of a signature equal to the one asked.
C25_HashConsistentWithEq ==
    pcE = "compared" =>
        /\ eqAB => hashA = hashB
        /\ eqAB => FnSigMap_get(TableOf(fnB.v), fnA.v) = {Loc(1, 1, 0)}
        /\ eqBA => FnSigMap_get(TableOf(fnA.v), fnB.v) = {Loc(1, 1, 0)}

\* witness of C25: two equal signatures of one parameter whose declarations
\* differ in the function's name, the parameter's name and the letter case of
\* the type, with the same hashed data
C25_Witness ==
    /\ pcE = "compared"
    /\ eqAB
    /\ Len(sigA.inputs) = 1
    /\ sigA.ident # sigB.ident
    /\ sigA.inputs[1].pat # sigB.inputs[1].pat
    /\ sigA.inputs[1].ty # sigB.inputs[1].ty
    /\ hashA = hashB
    /\ hashA[1] # <<>>
    /\ fnA.v # fnB.v


(* the files of the walk with the source extension that can be read *)
FilesRead == {f \in 1..NumFiles : FileOf(files[f]).ext_rs /\ FileOf(files[f]).readable}

\* C26: the count of the final `searched in N files` line is the number of
\* files with the source extension that were read: a file that was read and
\* that the file parser rejected is counted, a file that could not be read
\* is not.
C26_CountOfFilesRead ==
    \A i \in 1..Len(out) :
        out[i].kind = "searched" =>
            /\ i = Len(out)
            /\ pc = "exit_success"
            /\ out[i].n = Cardinality(FilesRead)

\* witness of C26: over a rejected file and an unreadable file the run ends
\* with the count 1, though no file was parsed
C26_Witness ==
    /\ pc = "exit_success"
    /\ {files[f] : f \in 1..NumFiles} = {"bad.rs", "locked.rs"}
    /\ items = <<>>
    /\ out # <<>>
    /\ out[Len(out)] = LineSearched(1)
====
